---- MODULE Spec2Model ----
(***************************************************************************)
(* SECC side of ISO 15118-2: the per-session state machine of              *)
(* iso15118/secc/states/iso15118_2_states.py together with the             *)
(* Failed-Response Registry of iso15118/secc/failed_responses.py.          *)
(*                                                                         *)
(* One session is modelled.  A round is one request/response pair: the     *)
(* session handler reads a request, the current state's process_message    *)
(* runs (hand-overs to other states included) and the response left in     *)
(* the output slot is sent; then go_to_next_state runs.                    *)
(* Collaborators (EVSE controller, security services, random generator)    *)
(* answer nondeterministically; their answers for the request at hand are  *)
(* kept in the variable env.                                               *)
(***************************************************************************)
EXTENDS Integers, Sequences, FiniteSets, TLC

VARIABLES
    comm_session,   \* the session context (SECCCommunicationSession fields)
    current_state,  \* name of the class of comm_session.current_state
    expecting,      \* the current state object's expecting_*_req flag
    message,        \* the request processed last
    env,            \* the collaborators' answers during that request
    entry,          \* state object and context that received that request
    next_msg,       \* the response sent for that request (NoMsg: none)
    next_state,     \* the next state named for that request
    created,        \* number of create_next_message calls for that request
    stopped_with,   \* codes given to stop_state_machine for that request
    raised,         \* TRUE iff process_message raised for that request
    pc,             \* "read": waiting for a request; "sent": answered it
    elapsed,        \* seconds the handler has waited for the next request
    script          \* requests the EVCC has still to send, when it runs a
                    \* fixed sequence of requests

vars == <<comm_session, current_state, expecting, pc, message, env, entry,
          next_msg, next_state, created, stopped_with, raised, elapsed,
          script>>

----------------------------------------------------------------------------
(* Bounds of the model *)

\* length of the schedule list returned by get_sa_schedule_list; its
\* tuples have the ids 1, 2, ...; a PowerDeliveryReq names an id in
\* 1..MaxSchedules+1
MaxSchedules == 2
\* meter readings are 0..MaxReading
MaxReading == 1

----------------------------------------------------------------------------
(* Values *)

None == "None"
\* an absent Optional[int]
NoInt == -1

\* bytes(1).hex(): the session id an EVCC sends to ask for a new session
ZeroId == "00"
\* eight zero bytes in hex
Zero8Id == "0000000000000000"
\* values of get_random_bytes(8).hex().upper()
RandomIds == {"0A0B0C0D0E0F1011"}
\* session id a paused session left in the context
PausedIds == {"F9F9EE8505F55838"}

EIM_V2 == "ExternalPayment"
PNC_V2 == "Contract"
AuthOptions == {EIM_V2, PNC_V2}

\* ServiceID
CHARGING == 1
CERTIFICATE == 2
INTERNET == 3
ServiceIds == {CHARGING, CERTIFICATE, INTERNET}

\* selected_energy_mode and selected_energy_mode.value.startswith("AC"):
\* a mode is selected and its name begins with AC
startswith_AC(mode) ==
    /\ mode # None
    /\ mode \in {"AC_single_phase_core", "AC_three_phase_core"}

\* the modes an EVCC asks for, and the answers of
\* get_supported_energy_transfer_modes(): the station is an AC station
EnergyModes == {"AC_three_phase_core", "DC_extended"}
SupportedModeSets == {{"AC_three_phase_core"}}

ChargeProgressValues == {"Start", "Stop", "Renegotiate"}

ReqTypes ==
    {"SessionSetupReq", "ServiceDiscoveryReq", "ServiceDetailReq",
     "PaymentServiceSelectionReq", "CertificateInstallationReq",
     "CertificateUpdateReq", "PaymentDetailsReq", "AuthorizationReq",
     "ChargeParameterDiscoveryReq", "PowerDeliveryReq", "ChargingStatusReq",
     "CableCheckReq", "PreChargeReq", "CurrentDemandReq",
     "MeteringReceiptReq", "WeldingDetectionReq", "SessionStopReq"}

\* outcomes of verify_certs: ok, or the exception it raises
VerifyCertsOutcomes ==
    {"ok", "CertSignatureError", "CertNotYetValidError", "CertExpiredError",
     "CertRevokedError", "CertAttributeError", "CertChainLengthError"}

\* outcomes of encrypt_priv_key
EncryptOutcomes == {"ok", "EncryptionError", "PrivateKeyReadError"}

----------------------------------------------------------------------------
(* Schedules: a tuple is [sa_schedule_tuple_id, sales_tariff]; the tuple   *)
(* at position i of a list get_sa_schedule_list returns has the id i.      *)

ScheduleTuples ==
    [sa_schedule_tuple_id : 1..MaxSchedules, sales_tariff : BOOLEAN]

ScheduleLists ==
    UNION { {s \in [1..n -> ScheduleTuples] :
                \A i \in 1..n : s[i].sa_schedule_tuple_id = i}
            : n \in 0..MaxSchedules }

ScheduleIds(list) == {list[i].sa_schedule_tuple_id : i \in 1..Len(list)}

----------------------------------------------------------------------------
(* Requests.  One record shape for all request types; a field a type does  *)
(* not carry keeps its default.                                            *)

NoRequest ==
    [type |-> None,
     session_id |-> None,              \* header.session_id
     service_category |-> None,        \* ServiceDiscoveryReq
     service_id |-> NoInt,             \* ServiceDetailReq
     selected_services |-> {},         \* PaymentServiceSelectionReq
     selected_auth_option |-> None,    \* PaymentServiceSelectionReq
     cert_chain |-> None,              \* PaymentDetailsReq
     requested_energy_mode |-> None,   \* ChargeParameterDiscoveryReq
     ac_ev_charge_parameter |-> FALSE, \* ChargeParameterDiscoveryReq
     sa_schedule_tuple_id |-> NoInt,   \* PowerDeliveryReq
     charge_progress |-> None,         \* PowerDeliveryReq
     charging_profile |-> FALSE,       \* PowerDeliveryReq
     meter_reading |-> NoInt,          \* MeteringReceiptReq.meter_info
     charging_session |-> None]        \* SessionStopReq

Req(t) == [NoRequest EXCEPT !.type = t]

\* the collaborators' answers; an answer a request does not ask for keeps
\* its default
NoEnv ==
    [random_id |-> None,               \* get_random_bytes(8).hex().upper()
     verify_signature |-> TRUE,        \* verify_signature(...)
     verify_certs |-> "ok",            \* verify_certs(...)
     encrypt_priv_key |-> "ok",        \* encrypt_priv_key(...)
     cps_key_readable |-> TRUE,        \* load_priv_key(KeyPath.CPS_LEAF_PEM)
     mo_key_readable |-> TRUE,         \* load_priv_key(KeyPath.MO_SUB_CA2_PEM)
     is_authorised |-> FALSE,          \* evse_controller.is_authorised()
     supported_modes |-> {},           \* get_supported_energy_transfer_modes()
     sa_schedule_list |-> <<>>]        \* get_sa_schedule_list(...)

SessionSetupReqs ==
    {[msg |-> [Req("SessionSetupReq") EXCEPT !.session_id = id],
      env |-> [NoEnv EXCEPT !.random_id = r]]
     : id \in {ZeroId, Zero8Id} \cup PausedIds \cup RandomIds,
       r \in RandomIds}

ServiceDiscoveryReqs ==
    {[msg |-> [Req("ServiceDiscoveryReq") EXCEPT !.service_category = c],
      env |-> NoEnv]
     : c \in {None, "ContractCertificate", "EVCharging"}}

ServiceDetailReqs ==
    {[msg |-> [Req("ServiceDetailReq") EXCEPT !.service_id = i],
      env |-> NoEnv]
     : i \in ServiceIds}

PaymentServiceSelectionReqs ==
    {[msg |-> [Req("PaymentServiceSelectionReq") EXCEPT
                   !.selected_services = s, !.selected_auth_option = a],
      env |-> NoEnv]
     : s \in SUBSET ServiceIds, a \in AuthOptions}

\* (an answer the state does not come to ask for keeps its default)
CertificateInstallationReqs ==
    {req \in
        {[msg |-> Req("CertificateInstallationReq"),
          env |-> [NoEnv EXCEPT !.verify_signature = v,
                                !.encrypt_priv_key = e,
                                !.cps_key_readable = k]]
         : v \in BOOLEAN, e \in EncryptOutcomes, k \in BOOLEAN} :
      /\ ~req.env.verify_signature => req.env.encrypt_priv_key = "ok"
      /\ ~(req.env.verify_signature /\ req.env.encrypt_priv_key = "ok")
            => req.env.cps_key_readable}

PaymentDetailsReqs ==
    {[msg |-> [Req("PaymentDetailsReq") EXCEPT !.cert_chain = "chain1"],
      env |-> [NoEnv EXCEPT !.verify_certs = o]]
     : o \in VerifyCertsOutcomes}

AuthorizationReqs ==
    {[msg |-> Req("AuthorizationReq"),
      env |-> [NoEnv EXCEPT !.verify_signature = v, !.is_authorised = a]]
     : v \in BOOLEAN, a \in BOOLEAN}

\* (no schedules are asked for when the mode is turned down, and no key
\* is read unless the first schedule has a sales tariff)
ChargeParameterDiscoveryReqs ==
    {req \in
        {[msg |-> [Req("ChargeParameterDiscoveryReq") EXCEPT
                       !.requested_energy_mode = m,
                       !.ac_ev_charge_parameter = (m = "AC_three_phase_core")],
          env |-> [NoEnv EXCEPT !.supported_modes = sup,
                                !.sa_schedule_list = l,
                                !.mo_key_readable = k]]
         : m \in EnergyModes, sup \in SupportedModeSets, l \in ScheduleLists,
           k \in BOOLEAN} :
      /\ req.msg.requested_energy_mode \notin req.env.supported_modes
            => req.env.sa_schedule_list = <<>>
      /\ ~req.env.mo_key_readable
            => /\ req.env.sa_schedule_list # <<>>
               /\ req.env.sa_schedule_list[1].sales_tariff}

PowerDeliveryReqs ==
    {[msg |-> [Req("PowerDeliveryReq") EXCEPT
                   !.sa_schedule_tuple_id = i, !.charge_progress = p,
                   !.charging_profile = c],
      env |-> NoEnv]
     : i \in 1..(MaxSchedules + 1), p \in ChargeProgressValues, c \in BOOLEAN}

MeteringReceiptReqs ==
    {[msg |-> [Req("MeteringReceiptReq") EXCEPT !.meter_reading = r],
      env |-> [NoEnv EXCEPT !.verify_signature = v]]
     : r \in {NoInt} \cup 0..MaxReading, v \in BOOLEAN}

SessionStopReqs ==
    {[msg |-> [Req("SessionStopReq") EXCEPT !.charging_session = c],
      env |-> NoEnv]
     : c \in {"Terminate", "Pause"}}

----------------------------------------------------------------------------
(* Responses.  One record shape for all response types.                    *)

NoMsg ==
    [type |-> None,
     response_code |-> None,
     session_id |-> None,              \* header.session_id
     evse_processing |-> None,
     auth_options |-> <<>>,            \* ServiceDiscoveryRes.auth_option_list
     service_list |-> {},              \* ServiceDiscoveryRes.service_list
     charge_service |-> NoInt,         \* ServiceDiscoveryRes.charge_service:
                                       \* its service_id
     sa_schedule_list |-> <<>>,        \* ChargeParameterDiscoveryRes
     sa_schedule_tuple_id |-> NoInt,   \* ChargingStatusRes
     receipt_required |-> FALSE,       \* ChargingStatusRes
     meter_info |-> NoInt,             \* ChargingStatusRes
     service_id |-> NoInt,             \* ServiceDetailRes
     parameter_set |-> {},             \* ServiceDetailRes
     evse_status |-> None,             \* which of ac_/dc_evse_status is set
     signature |-> FALSE]              \* header.signature is set

Res(t, code) == [NoMsg EXCEPT !.type = t, !.response_code = code]

OkCodes == {"OK", "OK_NEW_SESSION_ESTABLISHED", "OK_OLD_SESSION_JOINED"}

FailedCodes ==
    {"FAILED", "FAILED_SEQUENCE_ERROR", "FAILED_SERVICE_SELECTION_INVALID",
     "FAILED_NO_CHARGE_SERVICE_SELECTED", "FAILED_PAYMENT_SELECTION_INVALID",
     "FAILED_SIGNATURE_ERROR", "FAILED_CERT_CHAIN_ERROR",
     "FAILED_CERTIFICATE_EXPIRED", "FAILED_CERTIFICATE_REVOKED",
     "FAILED_WRONG_ENERGY_TRANSFER_MODE", "FAILED_TARIFF_SELECTION_INVALID",
     "FAILED_CHARGING_PROFILE_INVALID",
     "FAILED_METERING_SIGNATURE_NOT_VALID"}

\* the dictionary init_failed_responses_iso_v2() writes down: the failed
\* response of a request type, every name of the text bound
failed_response_iso_v2(t) ==
    CASE t = "SessionSetupReq" -> Res("SessionSetupRes", "FAILED")
      [] t = "ServiceDiscoveryReq" ->
            [Res("ServiceDiscoveryRes", "FAILED") EXCEPT
                !.auth_options = <<EIM_V2>>,
                !.charge_service = CHARGING]
      [] t = "ServiceDetailReq" ->
            [Res("ServiceDetailRes", "FAILED") EXCEPT !.service_id = 0]
      [] t = "PaymentServiceSelectionReq" ->
            Res("PaymentServiceSelectionRes", "FAILED")
      [] t = "CertificateInstallationReq" ->
            Res("CertificateInstallationRes", "FAILED")
      [] t = "CertificateUpdateReq" -> Res("CertificateUpdateRes", "FAILED")
      [] t = "PaymentDetailsReq" -> Res("PaymentDetailsRes", "FAILED")
      [] t = "AuthorizationReq" ->
            [Res("AuthorizationRes", "FAILED") EXCEPT
                !.evse_processing = "Finished"]
      [] t = "ChargeParameterDiscoveryReq" ->
            [Res("ChargeParameterDiscoveryRes", "FAILED") EXCEPT
                !.evse_processing = "Finished"]
      [] t = "PowerDeliveryReq" -> Res("PowerDeliveryRes", "FAILED")
      [] t = "ChargingStatusReq" ->
            [Res("ChargingStatusRes", "FAILED") EXCEPT
                !.sa_schedule_tuple_id = 1, !.evse_status = "AC"]
      [] t = "CableCheckReq" ->
            [Res("CableCheckRes", "FAILED") EXCEPT
                !.evse_processing = "Finished", !.evse_status = "DC"]
      [] t = "PreChargeReq" ->
            [Res("PreChargeRes", "FAILED") EXCEPT !.evse_status = "DC"]
      [] t = "CurrentDemandReq" ->
            [Res("CurrentDemandRes", "FAILED") EXCEPT
                !.sa_schedule_tuple_id = 1, !.evse_status = "DC"]
      [] t = "MeteringReceiptReq" -> Res("MeteringReceiptRes", "FAILED")
      [] t = "WeldingDetectionReq" ->
            [Res("WeldingDetectionRes", "FAILED") EXCEPT !.evse_status = "DC"]
      [] t = "SessionStopReq" -> Res("SessionStopRes", "FAILED")

\* the names the first two entries of the ISO 15118-2 dictionary use for
\* their values
names_used_iso_v2 ==
    {"ResponseCodeV2", "AuthOptionList", "AuthEnum", "ChargeService",
     "ServiceID", "ServiceCategory", "EnergyTransferModeList",
     "EnergyTransferModeEnum"}

\* those of them failed_responses.py imports; it defines none itself
names_imported_iso_v2 ==
    {"AuthEnum", "ChargeService", "EnergyTransferModeList",
     "EnergyTransferModeEnum"}

\* what a name that is not bound gives when it is evaluated
NameError == Res("NameError", None)

\* init_failed_responses_iso_v2()[t]: the dictionary is built when the
\* function is called, and a name that is not bound then ends the call with
\* a NameError before there is a dictionary to look into
init_failed_responses_iso_v2(t) ==
    IF names_used_iso_v2 \subseteq names_imported_iso_v2
    THEN failed_response_iso_v2(t)
    ELSE NameError

\* the request types init_failed_responses_din_spec_70121() has an entry for
DinSpecReqTypes ==
    {"SessionSetupReq", "ServiceDiscoveryReq", "ServicePaymentSelectionReq",
     "ContractAuthenticationReq", "ChargeParameterDiscoveryReq",
     "CableCheckReq", "PreChargeReq", "PowerDeliveryReq", "CurrentDemandReq",
     "WeldingDetectionReq", "SessionStopReq"}

\* the failed response init_failed_responses_din_spec_70121() holds for a
\* request type
init_failed_responses_din_spec_70121(t) ==
    CASE t = "SessionSetupReq" -> Res("SessionSetupRes", "FAILED")
      [] t = "ServiceDiscoveryReq" ->
            [Res("ServiceDiscoveryRes", "FAILED") EXCEPT
                !.auth_options = <<EIM_V2>>,
                !.charge_service = CHARGING]
      [] t = "ServicePaymentSelectionReq" ->
            Res("ServicePaymentSelectionRes", "FAILED")
      [] t = "ContractAuthenticationReq" ->
            [Res("ContractAuthenticationRes", "FAILED") EXCEPT
                !.evse_processing = "Finished"]
      [] t = "ChargeParameterDiscoveryReq" ->
            [Res("ChargeParameterDiscoveryRes", "FAILED") EXCEPT
                !.evse_processing = "Finished", !.evse_status = "DC"]
      [] t = "CableCheckReq" ->
            [Res("CableCheckRes", "FAILED") EXCEPT
                !.evse_processing = "Finished", !.evse_status = "DC"]
      [] t = "PreChargeReq" ->
            [Res("PreChargeRes", "FAILED") EXCEPT !.evse_status = "DC"]
      [] t = "PowerDeliveryReq" ->
            [Res("PowerDeliveryRes", "FAILED") EXCEPT !.evse_status = "DC"]
      [] t = "CurrentDemandReq" ->
            [Res("CurrentDemandRes", "FAILED") EXCEPT !.evse_status = "DC"]
      [] t = "WeldingDetectionReq" ->
            [Res("WeldingDetectionRes", "FAILED") EXCEPT !.evse_status = "DC"]
      [] t = "SessionStopReq" -> Res("SessionStopRes", "FAILED")

\* the request types init_failed_responses_iso_v20() has an entry for (the
\* entries that are commented out in the source are not in the dictionary)
IsoV20ReqTypes ==
    {"SessionSetupReq", "AuthorizationReq", "AuthorizationSetupReq",
     "CertificateInstallationReq", "ServiceDiscoveryReq", "ServiceDetailReq",
     "ServiceSelectionReq", "ACChargeParameterDiscoveryReq",
     "DCChargeParameterDiscoveryReq", "ScheduleExchangeReq",
     "PowerDeliveryReq", "ACChargeLoopReq", "MeteringConfirmationReq",
     "SessionStopReq"}

\* the response record of the entry init_failed_responses_iso_v20() holds for
\* a request type (the first element of the entry's tuple)
init_failed_responses_iso_v20(t) ==
    CASE t = "SessionSetupReq" ->
            [Res("SessionSetupRes", "FAILED") EXCEPT !.session_id = ZeroId]
      [] t = "AuthorizationReq" ->
            [Res("AuthorizationRes", "FAILED") EXCEPT
                !.session_id = ZeroId, !.evse_processing = "Finished"]
      [] t = "AuthorizationSetupReq" ->
            [Res("AuthorizationSetupRes", "FAILED") EXCEPT
                !.session_id = ZeroId, !.auth_options = <<"EIM">>]
      [] t = "CertificateInstallationReq" ->
            [Res("CertificateInstallationRes", "FAILED") EXCEPT
                !.session_id = ZeroId, !.evse_processing = "Finished"]
      [] t = "ServiceDiscoveryReq" ->
            [Res("ServiceDiscoveryRes", "FAILED") EXCEPT
                !.session_id = ZeroId]
      [] t = "ServiceDetailReq" ->
            [Res("ServiceDetailRes", "FAILED") EXCEPT
                !.session_id = ZeroId, !.service_id = 0]
      [] t = "ServiceSelectionReq" ->
            [Res("ServiceSelectionRes", "FAILED") EXCEPT
                !.session_id = ZeroId]
      [] t = "ACChargeParameterDiscoveryReq" ->
            [Res("ACChargeParameterDiscoveryRes", "FAILED") EXCEPT
                !.session_id = ZeroId]
      [] t = "DCChargeParameterDiscoveryReq" ->
            [Res("DCChargeParameterDiscoveryRes", "FAILED") EXCEPT
                !.session_id = ZeroId]
      [] t = "ScheduleExchangeReq" ->
            [Res("ScheduleExchangeRes", "FAILED") EXCEPT
                !.session_id = ZeroId, !.evse_processing = "Ongoing"]
      [] t = "PowerDeliveryReq" ->
            [Res("PowerDeliveryRes", "FAILED") EXCEPT !.session_id = ZeroId]
      [] t = "ACChargeLoopReq" ->
            [Res("ACChargeLoopRes", "FAILED") EXCEPT !.session_id = ZeroId]
      [] t = "MeteringConfirmationReq" ->
            [Res("MeteringConfirmationRes", "FAILED") EXCEPT
                !.session_id = ZeroId]
      [] t = "SessionStopReq" ->
            [Res("SessionStopRes", "FAILED") EXCEPT !.session_id = ZeroId]

----------------------------------------------------------------------------
(* The session context                                                     *)

\* the configurations a session may run with
Configs ==
    [supported_auth_options : (SUBSET {"EIM", "PNC"}) \ {{}},
     allow_cert_install_service : BOOLEAN]

NoStop == [successful |-> FALSE, reason |-> None]

\* the context of a connection that has been accepted: either new, or
\* carrying the session id and the auth option of a paused session
NewSession(is_tls, config, session_id, selected_auth_option) ==
    [session_id |-> session_id,
     evcc_id |-> None,
     is_tls |-> is_tls,
     config |-> config,
     offered_auth_options |-> <<>>,
     selected_auth_option |-> selected_auth_option,
     offered_services |-> {},
     contract_cert_chain |-> None,
     selected_energy_mode |-> None,
     offered_schedules |-> <<>>,
     selected_schedule |-> NoInt,
     charge_progress_started |-> FALSE,
     sent_meter_info |-> NoInt,
     stop_reason |-> NoStop]

\* the configurations of the sessions that resume a paused one
ResumeConfigs ==
    {[supported_auth_options |-> {"EIM", "PNC"},
      allow_cert_install_service |-> TRUE],
     [supported_auth_options |-> {"EIM"},
      allow_cert_install_service |-> TRUE]}

InitialSessions ==
    {NewSession(t, c, None, None) : t \in BOOLEAN, c \in Configs}
    \cup {NewSession(t, c, id, a)
          : t \in BOOLEAN, c \in ResumeConfigs, id \in PausedIds,
            a \in AuthOptions}

----------------------------------------------------------------------------
(* The state base class: what a process_message call has produced so far   *)

\* a fresh call on context cs: nothing in the output slot
Call(cs) ==
    [cs |-> cs,
     state |-> None,        \* the state object that filled the slot
     expecting |-> TRUE,    \* that object's expecting_*_req flag
     next_msg |-> NoMsg,
     next_state |-> None,
     created |-> 0,
     stopped_with |-> <<>>,
     raised |-> FALSE]

\* State.create_next_message: fills the output slot with the response
\* (its header carries the context's session id) and the next state; the
\* state object that answers is the session's current state from then on
create_next_message(r, self, state_next, res) ==
    [r EXCEPT !.state = self,
              !.next_state = state_next,
              !.next_msg = [res EXCEPT !.session_id = r.cs.session_id],
              !.created = @ + 1]

\* StateSECC.stop_state_machine: records the reason and queues the failed
\* response the state's registry holds for the request's type, with the
\* given code; the registry holds the records of the dictionary
stop_state_machine(r, self, reason, msg, response_code) ==
    create_next_message(
        [r EXCEPT !.cs.stop_reason = [successful |-> FALSE, reason |-> reason],
                  !.stopped_with = Append(@, response_code)],
        self, "Terminate",
        [failed_response_iso_v2(msg.type) EXCEPT
            !.response_code = response_code])

Range(seq) == {seq[i] : i \in 1..Len(seq)}

\* StateSECC.check_msg_v2: TRUE iff the request passes; with expect_first
\* only the first of the expected types passes
check_msg_v2(msg, expected_msg_types, expect_first) ==
    IF expect_first
    THEN msg.type = expected_msg_types[1]
    ELSE msg.type \in Range(expected_msg_types)

\* what check_msg_v2 does with a request that does not pass
sequence_error(r, self, msg) ==
    stop_state_machine(r, self, "message not accepted in state", msg,
                       "FAILED_SEQUENCE_ERROR")

\* the call runs on a state object whose expecting_*_req flag stands at
\* flag: the flag keeps that value unless the call writes it
flag_of_self(r, flag) == [r EXCEPT !.expecting = flag]

\* self.expecting_*_req = False
not_expecting(r) == [r EXCEPT !.expecting = FALSE]

\* an exception leaves process_message
raise(r) == [r EXCEPT !.raised = TRUE]

----------------------------------------------------------------------------
(* The request types each state passes to check_msg_v2, first type first   *)

SessionSetup_expected == <<"SessionSetupReq">>
ServiceDiscovery_expected ==
    <<"ServiceDiscoveryReq", "ServiceDetailReq", "PaymentServiceSelectionReq">>
ServiceDetail_expected == <<"ServiceDetailReq", "PaymentServiceSelectionReq">>
PaymentServiceSelection_expected ==
    <<"PaymentServiceSelectionReq", "CertificateInstallationReq",
      "PaymentDetailsReq", "AuthorizationReq">>
CertificateInstallation_expected == <<"CertificateInstallationReq">>
PaymentDetails_expected == <<"PaymentDetailsReq">>
Authorization_expected == <<"AuthorizationReq">>
ChargeParameterDiscovery_expected ==
    <<"ChargeParameterDiscoveryReq", "PowerDeliveryReq">>
PowerDelivery_expected ==
    <<"PowerDeliveryReq", "ChargeParameterDiscoveryReq", "ChargingStatusReq",
      "SessionStopReq">>
MeteringReceipt_expected ==
    <<"MeteringReceiptReq", "ChargingStatusReq", "CurrentDemandReq",
      "PowerDeliveryReq">>
ChargingStatus_expected ==
    <<"ChargingStatusReq", "PowerDeliveryReq", "MeteringReceiptReq">>
SessionStop_expected == <<"SessionStopReq">>

----------------------------------------------------------------------------
(* The states.  X_process_message(r, expect_first, msg, e) is the call     *)
(* X(comm_session).process_message(message) on a state object whose        *)
(* expecting_*_req flag is expect_first, r.cs being the context, with the  *)
(* collaborators answering e; a hand-over is process_message(Y, ...) on a  *)
(* new object of state Y.                                                  *)

RECURSIVE process_message(_, _, _, _, _)

\* (variant: the request's id is never compared with the session's id)
SessionSetup_process_message_always_new(call, expect_first, msg, e) ==
    LET r == flag_of_self(call, expect_first) IN
    IF ~check_msg_v2(msg, SessionSetup_expected, TRUE)
    THEN sequence_error(r, "SessionSetup", msg)
    ELSE
    LET r1 == [r EXCEPT !.cs.evcc_id = "evcc", !.cs.session_id = e.random_id]
    IN  create_next_message(r1, "SessionSetup", "ServiceDiscovery",
                            Res("SessionSetupRes",
                                "OK_NEW_SESSION_ESTABLISHED"))

SessionSetup_process_message(call, expect_first, msg, e) ==
    LET r == flag_of_self(call, expect_first) IN
    IF ~check_msg_v2(msg, SessionSetup_expected, TRUE)
    THEN sequence_error(r, "SessionSetup", msg)
    ELSE
    LET new == msg.session_id = ZeroId
        resume == ~new /\ msg.session_id = r.cs.session_id
        session_id == IF resume THEN r.cs.session_id ELSE e.random_id
        response_code == IF resume THEN "OK_OLD_SESSION_JOINED"
                         ELSE "OK_NEW_SESSION_ESTABLISHED"
        r1 == [r EXCEPT !.cs.evcc_id = "evcc", !.cs.session_id = session_id]
    IN  create_next_message(r1, "SessionSetup", "ServiceDiscovery",
                            Res("SessionSetupRes", response_code))

\* AuthOptionList: the list type of ServiceDiscoveryRes.auth_option_list
\* admits one or two options (the ISO 15118-2 type has the bounds of the
\* DIN SPEC 70121 one); building it from any other list raises a
\* validation error
AuthOptionList_valid(auth_options) == Len(auth_options) \in 1..2

\* (variant: the auth options are always taken from the configuration)
get_services_from_config(cs, category_filter) ==
    LET auth_options ==
            (IF "EIM" \in cs.config.supported_auth_options
             THEN <<EIM_V2>> ELSE <<>>)
            \o (IF "PNC" \in cs.config.supported_auth_options /\ cs.is_tls
                THEN <<PNC_V2>> ELSE <<>>)
        service_list ==
            IF /\ cs.is_tls
               /\ cs.config.allow_cert_install_service
               /\ category_filter \in {None, "ContractCertificate"}
            THEN {CERTIFICATE} ELSE {}
    IN  IF ~AuthOptionList_valid(auth_options)
        \* the response cannot be built: offered_auth_options is written,
        \* offered_services is not
        THEN [cs |-> [cs EXCEPT !.offered_auth_options = auth_options],
              res |-> NoMsg]
        ELSE [cs |-> [cs EXCEPT !.offered_auth_options = auth_options,
                                !.offered_services = service_list],
              res |-> [Res("ServiceDiscoveryRes", "OK") EXCEPT
                          !.auth_options = auth_options,
                          !.charge_service = CHARGING,
                          !.service_list = service_list]]

\* (variant: value-added services are offered without TLS as well)
get_services_without_tls(cs, category_filter) ==
    LET auth_options ==
            IF cs.selected_auth_option # None
            THEN IF cs.selected_auth_option = EIM_V2
                 THEN <<EIM_V2>> ELSE <<PNC_V2>>
            ELSE (IF "EIM" \in cs.config.supported_auth_options
                  THEN <<EIM_V2>> ELSE <<>>)
                 \o (IF "PNC" \in cs.config.supported_auth_options /\ cs.is_tls
                     THEN <<PNC_V2>> ELSE <<>>)
        service_list ==
            IF /\ cs.config.allow_cert_install_service
               /\ category_filter \in {None, "ContractCertificate"}
            THEN {CERTIFICATE} ELSE {}
    IN  IF ~AuthOptionList_valid(auth_options)
        \* the response cannot be built: offered_auth_options is written,
        \* offered_services is not
        THEN [cs |-> [cs EXCEPT !.offered_auth_options = auth_options],
              res |-> NoMsg]
        ELSE [cs |-> [cs EXCEPT !.offered_auth_options = auth_options,
                                !.offered_services = service_list],
              res |-> [Res("ServiceDiscoveryRes", "OK") EXCEPT
                          !.auth_options = auth_options,
                          !.charge_service = CHARGING,
                          !.service_list = service_list]]

\* ServiceDiscovery.get_services: the response and the context it leaves
get_services(cs, category_filter) ==
    LET auth_options ==
            IF cs.selected_auth_option # None
            THEN IF cs.selected_auth_option = EIM_V2
                 THEN <<EIM_V2>> ELSE <<PNC_V2>>
            ELSE (IF "EIM" \in cs.config.supported_auth_options
                  THEN <<EIM_V2>> ELSE <<>>)
                 \o (IF "PNC" \in cs.config.supported_auth_options /\ cs.is_tls
                     THEN <<PNC_V2>> ELSE <<>>)
        service_list ==
            IF /\ cs.is_tls
               /\ cs.config.allow_cert_install_service
               /\ category_filter \in {None, "ContractCertificate"}
            THEN {CERTIFICATE} ELSE {}
    IN  IF ~AuthOptionList_valid(auth_options)
        \* the response cannot be built: offered_auth_options is written,
        \* offered_services is not
        THEN [cs |-> [cs EXCEPT !.offered_auth_options = auth_options],
              res |-> NoMsg]
        ELSE [cs |-> [cs EXCEPT !.offered_auth_options = auth_options,
                                !.offered_services = service_list],
              res |-> [Res("ServiceDiscoveryRes", "OK") EXCEPT
                          !.auth_options = auth_options,
                          !.charge_service = CHARGING,
                          !.service_list = service_list]]

\* (variant: the flag expecting_service_discovery_req is never cleared)
ServiceDiscovery_process_message_flag_kept(call, expect_first, msg, e) ==
    LET r == flag_of_self(call, expect_first) IN
    IF ~check_msg_v2(msg, ServiceDiscovery_expected, expect_first)
    THEN sequence_error(r, "ServiceDiscovery", msg)
    ELSE IF msg.type = "ServiceDetailReq"
    THEN process_message("ServiceDetail", r, TRUE, msg, e)
    ELSE IF msg.type = "PaymentServiceSelectionReq"
    THEN process_message("PaymentServiceSelection", r, TRUE, msg, e)
    ELSE
    LET s == get_services(r.cs, msg.service_category)
    IN  IF s.res = NoMsg
        THEN raise([r EXCEPT !.cs = s.cs])
        ELSE create_next_message([r EXCEPT !.cs = s.cs],
                                 "ServiceDiscovery", None, s.res)

ServiceDiscovery_process_message(call, expect_first, msg, e) ==
    LET r == flag_of_self(call, expect_first) IN
    IF ~check_msg_v2(msg, ServiceDiscovery_expected, expect_first)
    THEN sequence_error(r, "ServiceDiscovery", msg)
    ELSE IF msg.type = "ServiceDetailReq"
    THEN process_message("ServiceDetail", r, TRUE, msg, e)
    ELSE IF msg.type = "PaymentServiceSelectionReq"
    THEN process_message("PaymentServiceSelection", r, TRUE, msg, e)
    ELSE
    LET s == get_services(r.cs, msg.service_category)
    IN  IF s.res = NoMsg
        THEN raise([r EXCEPT !.cs = s.cs])
        ELSE not_expecting(create_next_message(
                [r EXCEPT !.cs = s.cs], "ServiceDiscovery", None, s.res))

ServiceDetail_process_message(call, expect_first, msg, e) ==
    LET r == flag_of_self(call, expect_first) IN
    IF ~check_msg_v2(msg, ServiceDetail_expected, expect_first)
    THEN sequence_error(r, "ServiceDetail", msg)
    ELSE IF msg.type = "PaymentServiceSelectionReq"
    THEN process_message("PaymentServiceSelection", r, TRUE, msg, e)
    ELSE
    LET res == [Res("ServiceDetailRes", "OK") EXCEPT
                   !.service_id = msg.service_id,
                   !.parameter_set = IF msg.service_id = CERTIFICATE
                                     THEN {"Installation"} ELSE {}]
    IN  not_expecting(create_next_message(r, "ServiceDetail", None, res))

\* (variant: the selected authorization option is taken unchecked)
PaymentServiceSelection_process_message_auth_unchecked(call, expect_first, msg, e) ==
    LET r == flag_of_self(call, expect_first) IN
    IF ~check_msg_v2(msg, PaymentServiceSelection_expected, expect_first)
    THEN sequence_error(r, "PaymentServiceSelection", msg)
    ELSE IF msg.type = "CertificateInstallationReq"
    THEN process_message("CertificateInstallation", r, TRUE, msg, e)
    ELSE IF msg.type = "PaymentDetailsReq"
    THEN process_message("PaymentDetails", r, TRUE, msg, e)
    ELSE IF msg.type = "AuthorizationReq"
    THEN process_message("Authorization", r, TRUE, msg, e)
    ELSE IF \E id \in msg.selected_services \ {CHARGING} :
                id \notin r.cs.offered_services
    THEN stop_state_machine(r, "PaymentServiceSelection",
                            "Selected service was not offered", msg,
                            "FAILED_SERVICE_SELECTION_INVALID")
    ELSE IF CHARGING \notin msg.selected_services
    THEN stop_state_machine(r, "PaymentServiceSelection",
                            "Charge service not selected", msg,
                            "FAILED_NO_CHARGE_SERVICE_SELECTED")
    ELSE not_expecting(create_next_message(
            [r EXCEPT !.cs.selected_auth_option = msg.selected_auth_option],
            "PaymentServiceSelection", None,
            Res("PaymentServiceSelectionRes", "OK")))

PaymentServiceSelection_process_message(call, expect_first, msg, e) ==
    LET r == flag_of_self(call, expect_first) IN
    IF ~check_msg_v2(msg, PaymentServiceSelection_expected, expect_first)
    THEN sequence_error(r, "PaymentServiceSelection", msg)
    ELSE IF msg.type = "CertificateInstallationReq"
    THEN process_message("CertificateInstallation", r, TRUE, msg, e)
    ELSE IF msg.type = "PaymentDetailsReq"
    THEN process_message("PaymentDetails", r, TRUE, msg, e)
    ELSE IF msg.type = "AuthorizationReq"
    THEN process_message("Authorization", r, TRUE, msg, e)
    ELSE IF \E id \in msg.selected_services \ {CHARGING} :
                id \notin r.cs.offered_services
    THEN stop_state_machine(r, "PaymentServiceSelection",
                            "Selected service was not offered", msg,
                            "FAILED_SERVICE_SELECTION_INVALID")
    ELSE IF CHARGING \notin msg.selected_services
    THEN stop_state_machine(r, "PaymentServiceSelection",
                            "Charge service not selected", msg,
                            "FAILED_NO_CHARGE_SERVICE_SELECTED")
    ELSE IF msg.selected_auth_option \notin Range(r.cs.offered_auth_options)
    THEN stop_state_machine(r, "PaymentServiceSelection",
                            "Selected authorization method was not offered",
                            msg, "FAILED_PAYMENT_SELECTION_INVALID")
    ELSE not_expecting(create_next_message(
            [r EXCEPT !.cs.selected_auth_option = msg.selected_auth_option],
            "PaymentServiceSelection", None,
            Res("PaymentServiceSelectionRes", "OK")))

CertificateInstallation_process_message(call, expect_first, msg, e) ==
    LET r == flag_of_self(call, expect_first) IN
    IF ~check_msg_v2(msg, CertificateInstallation_expected, TRUE)
    THEN sequence_error(r, "CertificateInstallation", msg)
    ELSE IF ~e.verify_signature
    THEN stop_state_machine(r, "CertificateInstallation",
                            "Signature verification failed", msg,
                            "FAILED_SIGNATURE_ERROR")
    ELSE IF e.encrypt_priv_key # "ok"
    THEN stop_state_machine(r, "CertificateInstallation",
                            e.encrypt_priv_key, msg, "FAILED")
    ELSE IF ~e.cps_key_readable
    THEN stop_state_machine(r, "CertificateInstallation",
                            "PrivateKeyReadError", msg, "FAILED")
    ELSE create_next_message(
            r, "CertificateInstallation", "PaymentDetails",
            [Res("CertificateInstallationRes", "OK") EXCEPT
                !.signature = TRUE])

\* (variant: a verified chain leads straight to ChargeParameterDiscovery)
PaymentDetails_process_message_skips_authorization(call, expect_first, msg, e) ==
    LET r == flag_of_self(call, expect_first) IN
    IF ~check_msg_v2(msg, PaymentDetails_expected, TRUE)
    THEN sequence_error(r, "PaymentDetails", msg)
    ELSE IF e.verify_certs = "ok"
    THEN create_next_message(
            [r EXCEPT !.cs.contract_cert_chain = msg.cert_chain],
            "PaymentDetails", "ChargeParameterDiscovery",
            Res("PaymentDetailsRes", "OK"))
    ELSE stop_state_machine(r, "PaymentDetails", e.verify_certs, msg,
                            "FAILED")

\* (variant: the chain is stored before it is verified)
PaymentDetails_process_message_stored_first(call, expect_first, msg, e) ==
    LET r == flag_of_self(call, expect_first) IN
    IF ~check_msg_v2(msg, PaymentDetails_expected, TRUE)
    THEN sequence_error(r, "PaymentDetails", msg)
    ELSE
    LET r1 == [r EXCEPT !.cs.contract_cert_chain = msg.cert_chain]
    IN  IF e.verify_certs = "ok"
        THEN create_next_message(
                r1, "PaymentDetails", "Authorization",
                Res("PaymentDetailsRes", "OK"))
        ELSE
        LET response_code ==
                CASE e.verify_certs = "CertSignatureError" ->
                        "FAILED_CERT_CHAIN_ERROR"
                  [] e.verify_certs = "CertChainLengthError" ->
                        "FAILED_CERT_CHAIN_ERROR"
                  [] e.verify_certs = "CertExpiredError" ->
                        "FAILED_CERTIFICATE_EXPIRED"
                  [] e.verify_certs = "CertRevokedError" ->
                        "FAILED_CERTIFICATE_REVOKED"
                  [] OTHER -> "FAILED"
        IN  stop_state_machine(r1, "PaymentDetails", e.verify_certs, msg,
                               response_code)

PaymentDetails_process_message(call, expect_first, msg, e) ==
    LET r == flag_of_self(call, expect_first) IN
    IF ~check_msg_v2(msg, PaymentDetails_expected, TRUE)
    THEN sequence_error(r, "PaymentDetails", msg)
    ELSE IF e.verify_certs = "ok"
    THEN create_next_message(
            [r EXCEPT !.cs.contract_cert_chain = msg.cert_chain],
            "PaymentDetails", "Authorization", Res("PaymentDetailsRes", "OK"))
    ELSE
    LET response_code ==
            CASE e.verify_certs = "CertSignatureError" ->
                    "FAILED_CERT_CHAIN_ERROR"
              [] e.verify_certs = "CertChainLengthError" ->
                    "FAILED_CERT_CHAIN_ERROR"
              [] e.verify_certs = "CertExpiredError" ->
                    "FAILED_CERTIFICATE_EXPIRED"
              [] e.verify_certs = "CertRevokedError" ->
                    "FAILED_CERTIFICATE_REVOKED"
              [] OTHER -> "FAILED"
    IN  stop_state_machine(r, "PaymentDetails", e.verify_certs, msg,
                           response_code)

\* (variant: the next state is ChargeParameterDiscovery whether or not the
\* controller has authorised)
Authorization_process_message_moves_on(call, expect_first, msg, e) ==
    LET r == flag_of_self(call, expect_first) IN
    IF ~check_msg_v2(msg, Authorization_expected, TRUE)
    THEN sequence_error(r, "Authorization", msg)
    ELSE IF /\ r.cs.selected_auth_option = PNC_V2
            /\ r.cs.contract_cert_chain = None
    THEN stop_state_machine(r, "Authorization",
                            "No contract certificate chain available", msg,
                            "FAILED_SIGNATURE_ERROR")
    ELSE IF r.cs.selected_auth_option = PNC_V2 /\ ~e.verify_signature
    THEN stop_state_machine(r, "Authorization",
                            "Unable to verify signature of AuthorizationReq",
                            msg, "FAILED_SIGNATURE_ERROR")
    ELSE
    LET auth_status == IF e.is_authorised THEN "Finished" ELSE "Ongoing"
    IN  create_next_message(
            r, "Authorization", "ChargeParameterDiscovery",
            [Res("AuthorizationRes", "OK") EXCEPT
                !.evse_processing = auth_status])

\* (variant: the signature is verified only when a chain is stored)
Authorization_process_message_chain_optional(call, expect_first, msg, e) ==
    LET r == flag_of_self(call, expect_first) IN
    IF ~check_msg_v2(msg, Authorization_expected, TRUE)
    THEN sequence_error(r, "Authorization", msg)
    ELSE IF /\ r.cs.selected_auth_option = PNC_V2
            /\ r.cs.contract_cert_chain # None
            /\ ~e.verify_signature
    THEN stop_state_machine(r, "Authorization",
                            "Unable to verify signature of AuthorizationReq",
                            msg, "FAILED_SIGNATURE_ERROR")
    ELSE
    LET auth_status == IF e.is_authorised THEN "Finished" ELSE "Ongoing"
        state_next == IF e.is_authorised THEN "ChargeParameterDiscovery"
                      ELSE "Authorization"
    IN  create_next_message(
            r, "Authorization", state_next,
            [Res("AuthorizationRes", "OK") EXCEPT
                !.evse_processing = auth_status])

Authorization_process_message(call, expect_first, msg, e) ==
    LET r == flag_of_self(call, expect_first) IN
    IF ~check_msg_v2(msg, Authorization_expected, TRUE)
    THEN sequence_error(r, "Authorization", msg)
    ELSE IF /\ r.cs.selected_auth_option = PNC_V2
            /\ r.cs.contract_cert_chain = None
    THEN stop_state_machine(r, "Authorization",
                            "No contract certificate chain available", msg,
                            "FAILED_SIGNATURE_ERROR")
    ELSE IF r.cs.selected_auth_option = PNC_V2 /\ ~e.verify_signature
    THEN stop_state_machine(r, "Authorization",
                            "Unable to verify signature of AuthorizationReq",
                            msg, "FAILED_SIGNATURE_ERROR")
    ELSE
    LET auth_status == IF e.is_authorised THEN "Finished" ELSE "Ongoing"
        state_next == IF e.is_authorised THEN "ChargeParameterDiscovery"
                      ELSE "Authorization"
    IN  create_next_message(
            r, "Authorization", state_next,
            [Res("AuthorizationRes", "OK") EXCEPT
                !.evse_processing = auth_status])

\* (variant: the requested mode is tested against the modes of the
\* standard, not against the controller's)
energy_mode_supported_by_standard(msg, e) ==
    msg.requested_energy_mode \in EnergyModes

\* the requested mode is one of the controller's supported modes
energy_mode_supported(msg, e) ==
    msg.requested_energy_mode \in e.supported_modes

\* (variant: the returned list is stored whether or not it is empty)
ChargeParameterDiscovery_process_message_list_always_stored(call, expect_first, msg, e) ==
    LET r == flag_of_self(call, expect_first) IN
    IF ~check_msg_v2(msg, ChargeParameterDiscovery_expected, expect_first)
    THEN sequence_error(r, "ChargeParameterDiscovery", msg)
    ELSE IF msg.type = "PowerDeliveryReq"
    THEN process_message("PowerDelivery", r, TRUE, msg, e)
    ELSE IF ~energy_mode_supported(msg, e)
    THEN stop_state_machine(r, "ChargeParameterDiscovery",
                            "not offered as energy transfer mode", msg,
                            "FAILED_WRONG_ENERGY_TRANSFER_MODE")
    ELSE
    LET sa_schedule_list == e.sa_schedule_list
        r1 == [r EXCEPT !.cs.selected_energy_mode = msg.requested_energy_mode]
        res == [Res("ChargeParameterDiscoveryRes", "OK") EXCEPT
                   !.evse_processing = IF sa_schedule_list # <<>>
                                       THEN "Finished" ELSE "Ongoing",
                   !.sa_schedule_list = sa_schedule_list,
                   !.evse_status = IF msg.ac_ev_charge_parameter
                                   THEN "AC" ELSE "DC"]
        \* the loop over the schedules ends after its first pass
        signature == /\ sa_schedule_list[1].sales_tariff
                     /\ e.mo_key_readable
    IN  IF sa_schedule_list # <<>>
        THEN not_expecting(create_next_message(
                [r1 EXCEPT !.cs.offered_schedules = sa_schedule_list],
                "ChargeParameterDiscovery", "PowerDelivery",
                [res EXCEPT !.signature = signature]))
        ELSE [create_next_message(
                [r1 EXCEPT !.cs.offered_schedules = sa_schedule_list],
                "ChargeParameterDiscovery", None, res)
                EXCEPT !.expecting = TRUE]

\* (variant: a private key that cannot be read ends the session)
ChargeParameterDiscovery_process_message_key_needed(call, expect_first, msg, e) ==
    LET r == flag_of_self(call, expect_first) IN
    IF ~check_msg_v2(msg, ChargeParameterDiscovery_expected, expect_first)
    THEN sequence_error(r, "ChargeParameterDiscovery", msg)
    ELSE IF msg.type = "PowerDeliveryReq"
    THEN process_message("PowerDelivery", r, TRUE, msg, e)
    ELSE IF ~energy_mode_supported(msg, e)
    THEN stop_state_machine(r, "ChargeParameterDiscovery",
                            "not offered as energy transfer mode", msg,
                            "FAILED_WRONG_ENERGY_TRANSFER_MODE")
    ELSE
    LET sa_schedule_list == e.sa_schedule_list
        r1 == [r EXCEPT !.cs.selected_energy_mode = msg.requested_energy_mode]
        res == [Res("ChargeParameterDiscoveryRes", "OK") EXCEPT
                   !.evse_processing = IF sa_schedule_list # <<>>
                                       THEN "Finished" ELSE "Ongoing",
                   !.sa_schedule_list = sa_schedule_list,
                   !.evse_status = IF msg.ac_ev_charge_parameter
                                   THEN "AC" ELSE "DC"]
        \* the loop over the schedules ends after its first pass
        signature == /\ sa_schedule_list[1].sales_tariff
                     /\ e.mo_key_readable
    IN  IF /\ sa_schedule_list # <<>>
           /\ sa_schedule_list[1].sales_tariff
           /\ ~e.mo_key_readable
        THEN stop_state_machine(r1, "ChargeParameterDiscovery",
                                "PrivateKeyReadError", msg, "FAILED")
        ELSE IF sa_schedule_list # <<>>
        THEN not_expecting(create_next_message(
                [r1 EXCEPT !.cs.offered_schedules = sa_schedule_list],
                "ChargeParameterDiscovery", "PowerDelivery",
                [res EXCEPT !.signature = signature]))
        ELSE [create_next_message(r1, "ChargeParameterDiscovery", None, res)
                EXCEPT !.expecting = TRUE]

\* (variant: the requested mode is stored before it is checked)
ChargeParameterDiscovery_process_message_mode_stored_first(call, expect_first, msg, e) ==
    LET r == flag_of_self(call, expect_first) IN
    IF ~check_msg_v2(msg, ChargeParameterDiscovery_expected, expect_first)
    THEN sequence_error(r, "ChargeParameterDiscovery", msg)
    ELSE IF msg.type = "PowerDeliveryReq"
    THEN process_message("PowerDelivery", r, TRUE, msg, e)
    ELSE IF ~energy_mode_supported(msg, e)
    THEN stop_state_machine(
            [r EXCEPT !.cs.selected_energy_mode = msg.requested_energy_mode],
            "ChargeParameterDiscovery",
            "not offered as energy transfer mode", msg,
            "FAILED_WRONG_ENERGY_TRANSFER_MODE")
    ELSE
    LET sa_schedule_list == e.sa_schedule_list
        r1 == [r EXCEPT !.cs.selected_energy_mode = msg.requested_energy_mode]
        res == [Res("ChargeParameterDiscoveryRes", "OK") EXCEPT
                   !.evse_processing = IF sa_schedule_list # <<>>
                                       THEN "Finished" ELSE "Ongoing",
                   !.sa_schedule_list = sa_schedule_list,
                   !.evse_status = IF msg.ac_ev_charge_parameter
                                   THEN "AC" ELSE "DC"]
        \* the loop over the schedules ends after its first pass
        signature == /\ sa_schedule_list[1].sales_tariff
                     /\ e.mo_key_readable
    IN  IF sa_schedule_list # <<>>
        THEN not_expecting(create_next_message(
                [r1 EXCEPT !.cs.offered_schedules = sa_schedule_list],
                "ChargeParameterDiscovery", "PowerDelivery",
                [res EXCEPT !.signature = signature]))
        ELSE [create_next_message(r1, "ChargeParameterDiscovery", None, res)
                EXCEPT !.expecting = TRUE]

\* (variant: the flag is cleared by an answer with Ongoing as well)
ChargeParameterDiscovery_process_message_flag_cleared(call, expect_first, msg, e) ==
    LET r == flag_of_self(call, expect_first) IN
    IF ~check_msg_v2(msg, ChargeParameterDiscovery_expected, expect_first)
    THEN sequence_error(r, "ChargeParameterDiscovery", msg)
    ELSE IF msg.type = "PowerDeliveryReq"
    THEN process_message("PowerDelivery", r, TRUE, msg, e)
    ELSE IF ~energy_mode_supported(msg, e)
    THEN stop_state_machine(r, "ChargeParameterDiscovery",
                            "not offered as energy transfer mode", msg,
                            "FAILED_WRONG_ENERGY_TRANSFER_MODE")
    ELSE
    LET sa_schedule_list == e.sa_schedule_list
        r1 == [r EXCEPT !.cs.selected_energy_mode = msg.requested_energy_mode]
        res == [Res("ChargeParameterDiscoveryRes", "OK") EXCEPT
                   !.evse_processing = IF sa_schedule_list # <<>>
                                       THEN "Finished" ELSE "Ongoing",
                   !.sa_schedule_list = sa_schedule_list,
                   !.evse_status = IF msg.ac_ev_charge_parameter
                                   THEN "AC" ELSE "DC"]
        \* the loop over the schedules ends after its first pass
        signature == /\ sa_schedule_list[1].sales_tariff
                     /\ e.mo_key_readable
    IN  IF sa_schedule_list # <<>>
        THEN not_expecting(create_next_message(
                [r1 EXCEPT !.cs.offered_schedules = sa_schedule_list],
                "ChargeParameterDiscovery", "PowerDelivery",
                [res EXCEPT !.signature = signature]))
        ELSE not_expecting(create_next_message(
                r1, "ChargeParameterDiscovery", None, res))

ChargeParameterDiscovery_process_message(call, expect_first, msg, e) ==
    LET r == flag_of_self(call, expect_first) IN
    IF ~check_msg_v2(msg, ChargeParameterDiscovery_expected, expect_first)
    THEN sequence_error(r, "ChargeParameterDiscovery", msg)
    ELSE IF msg.type = "PowerDeliveryReq"
    THEN process_message("PowerDelivery", r, TRUE, msg, e)
    ELSE IF ~energy_mode_supported(msg, e)
    THEN stop_state_machine(r, "ChargeParameterDiscovery",
                            "not offered as energy transfer mode", msg,
                            "FAILED_WRONG_ENERGY_TRANSFER_MODE")
    ELSE
    LET sa_schedule_list == e.sa_schedule_list
        r1 == [r EXCEPT !.cs.selected_energy_mode = msg.requested_energy_mode]
        res == [Res("ChargeParameterDiscoveryRes", "OK") EXCEPT
                   !.evse_processing = IF sa_schedule_list # <<>>
                                       THEN "Finished" ELSE "Ongoing",
                   !.sa_schedule_list = sa_schedule_list,
                   !.evse_status = IF msg.ac_ev_charge_parameter
                                   THEN "AC" ELSE "DC"]
        \* the loop over the schedules ends after its first pass
        signature == /\ sa_schedule_list[1].sales_tariff
                     /\ e.mo_key_readable
    IN  IF sa_schedule_list # <<>>
        THEN not_expecting(create_next_message(
                [r1 EXCEPT !.cs.offered_schedules = sa_schedule_list],
                "ChargeParameterDiscovery", "PowerDelivery",
                [res EXCEPT !.signature = signature]))
        ELSE [create_next_message(r1, "ChargeParameterDiscovery", None, res)
                EXCEPT !.expecting = TRUE]

\* (variant: the tuple id is not looked at when charging is to stop)
tuple_id_offered_unless_stop(msg, cs) ==
    \/ msg.charge_progress = "Stop"
    \/ msg.sa_schedule_tuple_id \in ScheduleIds(cs.offered_schedules)

\* (variant: the schedule selected before is accepted as well)
tuple_id_offered_or_selected(msg, cs) ==
    msg.sa_schedule_tuple_id \in
        ScheduleIds(cs.offered_schedules) \cup {cs.selected_schedule}

\* the request's tuple id is the id of an offered schedule
tuple_id_offered(msg, cs) ==
    msg.sa_schedule_tuple_id \in ScheduleIds(cs.offered_schedules)

\* (variant: the profile is asked for with Stop instead of Start)
profile_missing_on_stop(msg) ==
    msg.charge_progress = "Stop" /\ ~msg.charging_profile

\* ChargeProgress is Start and the request has no charging profile
profile_missing(msg) ==
    msg.charge_progress = "Start" /\ ~msg.charging_profile

\* (variant: Start leaves charge_progress_started as it was)
PowerDelivery_process_message_start_unrecorded(call, expect_first, msg, e) ==
    LET r == flag_of_self(call, expect_first) IN
    IF ~check_msg_v2(msg, PowerDelivery_expected, expect_first)
    THEN sequence_error(r, "PowerDelivery", msg)
    ELSE IF msg.type = "ChargeParameterDiscoveryReq"
    THEN process_message("ChargeParameterDiscovery", r, TRUE, msg, e)
    ELSE IF msg.type = "ChargingStatusReq"
    THEN process_message("ChargingStatus", r, TRUE, msg, e)
    ELSE IF msg.type = "SessionStopReq"
    THEN process_message("SessionStop", r, TRUE, msg, e)
    ELSE IF ~tuple_id_offered(msg, r.cs)
    THEN stop_state_machine(r, "PowerDelivery",
                            "does not match any offered tariff IDs", msg,
                            "FAILED_TARIFF_SELECTION_INVALID")
    ELSE IF profile_missing(msg)
    THEN stop_state_machine(r, "PowerDelivery",
                            "No charge profile provided", msg,
                            "FAILED_CHARGING_PROFILE_INVALID")
    ELSE
    LET res == [Res("PowerDeliveryRes", "OK") EXCEPT !.evse_status = "AC"]
    IN  IF msg.charge_progress = "Start"
        THEN not_expecting(create_next_message(
                [r EXCEPT !.cs.selected_schedule = msg.sa_schedule_tuple_id],
                "PowerDelivery", "ChargingStatus", res))
        ELSE IF msg.charge_progress = "Stop"
        THEN not_expecting(create_next_message(
                r, "PowerDelivery", "SessionStop", res))
        ELSE IF r.cs.charge_progress_started
        THEN not_expecting(create_next_message(
                r, "PowerDelivery", "ChargeParameterDiscovery", res))
        ELSE not_expecting(create_next_message(
                stop_state_machine(r, "PowerDelivery",
                                   "charge progress has not yet started",
                                   msg, "FAILED"),
                "PowerDelivery", "Terminate", res))

PowerDelivery_process_message(call, expect_first, msg, e) ==
    LET r == flag_of_self(call, expect_first) IN
    IF ~check_msg_v2(msg, PowerDelivery_expected, expect_first)
    THEN sequence_error(r, "PowerDelivery", msg)
    ELSE IF msg.type = "ChargeParameterDiscoveryReq"
    THEN process_message("ChargeParameterDiscovery", r, TRUE, msg, e)
    ELSE IF msg.type = "ChargingStatusReq"
    THEN process_message("ChargingStatus", r, TRUE, msg, e)
    ELSE IF msg.type = "SessionStopReq"
    THEN process_message("SessionStop", r, TRUE, msg, e)
    ELSE IF ~tuple_id_offered(msg, r.cs)
    THEN stop_state_machine(r, "PowerDelivery",
                            "does not match any offered tariff IDs", msg,
                            "FAILED_TARIFF_SELECTION_INVALID")
    ELSE IF profile_missing(msg)
    THEN stop_state_machine(r, "PowerDelivery",
                            "No charge profile provided", msg,
                            "FAILED_CHARGING_PROFILE_INVALID")
    ELSE
    LET res == [Res("PowerDeliveryRes", "OK") EXCEPT !.evse_status = "AC"]
    IN  IF msg.charge_progress = "Start"
        THEN not_expecting(create_next_message(
                [r EXCEPT !.cs.selected_schedule = msg.sa_schedule_tuple_id,
                          !.cs.charge_progress_started = TRUE],
                "PowerDelivery", "ChargingStatus", res))
        ELSE IF msg.charge_progress = "Stop"
        THEN not_expecting(create_next_message(
                r, "PowerDelivery", "SessionStop", res))
        ELSE IF r.cs.charge_progress_started
        THEN not_expecting(create_next_message(
                r, "PowerDelivery", "ChargeParameterDiscovery", res))
        \* stop_state_machine is not followed by a return: the OK response
        \* below it is created as well
        ELSE not_expecting(create_next_message(
                stop_state_machine(r, "PowerDelivery",
                                   "charge progress has not yet started",
                                   msg, "FAILED"),
                "PowerDelivery", "Terminate", res))

\* the meter-info test of MeteringReceipt: TRUE iff the request's reading
\* is rejected (Python truth values: None and 0 are false)
meter_info_rejected(meter_reading, sent_meter_info) ==
    \/ meter_reading \in {NoInt, 0}
    \/ /\ sent_meter_info \notin {NoInt, 0}
       /\ meter_reading # sent_meter_info

\* (variant: the chain is asked for in PnC sessions only)
MeteringReceipt_process_message_pnc_only(call, expect_first, msg, e) ==
    LET r == flag_of_self(call, expect_first) IN
    IF ~check_msg_v2(msg, MeteringReceipt_expected, expect_first)
    THEN sequence_error(r, "MeteringReceipt", msg)
    ELSE IF msg.type = "PowerDeliveryReq"
    THEN process_message("PowerDelivery", r, TRUE, msg, e)
    ELSE IF msg.type = "ChargingStatusReq"
    THEN process_message("ChargingStatus", r, TRUE, msg, e)
    ELSE IF msg.type = "CurrentDemandReq"
    THEN process_message("CurrentDemand", r, TRUE, msg, e)
    ELSE
    LET stop_reason ==
            IF /\ r.cs.selected_auth_option = PNC_V2
               /\ r.cs.contract_cert_chain = None
            THEN "No contract certificate chain available"
            ELSE IF ~e.verify_signature
            THEN "Unable to verify signature of MeteringReceiptReq"
            ELSE IF meter_info_rejected(msg.meter_reading,
                                        r.cs.sent_meter_info)
            THEN "EVCC's meter info is not a copy of the SECC's meter info"
            ELSE None
    IN  IF stop_reason # None
        THEN stop_state_machine(r, "MeteringReceipt", stop_reason, msg,
                                "FAILED_METERING_SIGNATURE_NOT_VALID")
        ELSE not_expecting(create_next_message(
                r, "MeteringReceipt", None,
                [Res("MeteringReceiptRes", "OK") EXCEPT
                    !.evse_status =
                        IF startswith_AC(r.cs.selected_energy_mode)
                        THEN "AC" ELSE "DC"]))

MeteringReceipt_process_message(call, expect_first, msg, e) ==
    LET r == flag_of_self(call, expect_first) IN
    IF ~check_msg_v2(msg, MeteringReceipt_expected, expect_first)
    THEN sequence_error(r, "MeteringReceipt", msg)
    ELSE IF msg.type = "PowerDeliveryReq"
    THEN process_message("PowerDelivery", r, TRUE, msg, e)
    ELSE IF msg.type = "ChargingStatusReq"
    THEN process_message("ChargingStatus", r, TRUE, msg, e)
    ELSE IF msg.type = "CurrentDemandReq"
    THEN process_message("CurrentDemand", r, TRUE, msg, e)
    ELSE
    LET stop_reason ==
            IF r.cs.contract_cert_chain = None
            THEN "No contract certificate chain available"
            ELSE IF ~e.verify_signature
            THEN "Unable to verify signature of MeteringReceiptReq"
            ELSE IF meter_info_rejected(msg.meter_reading,
                                        r.cs.sent_meter_info)
            THEN "EVCC's meter info is not a copy of the SECC's meter info"
            ELSE None
    IN  IF stop_reason # None
        THEN stop_state_machine(r, "MeteringReceipt", stop_reason, msg,
                                "FAILED_METERING_SIGNATURE_NOT_VALID")
        ELSE not_expecting(create_next_message(
                r, "MeteringReceipt", None,
                [Res("MeteringReceiptRes", "OK") EXCEPT
                    !.evse_status =
                        IF startswith_AC(r.cs.selected_energy_mode)
                        THEN "AC" ELSE "DC"]))

\* CableCheck, PreCharge, CurrentDemand, WeldingDetection:
\* raise NotImplementedError
CableCheck_process_message(r, expect_first, msg, e) == raise(r)
PreCharge_process_message(r, expect_first, msg, e) == raise(r)
CurrentDemand_process_message(r, expect_first, msg, e) == raise(r)
WeldingDetection_process_message(r, expect_first, msg, e) == raise(r)

\* (variant: the response names the first tuple, as the failed response does)
ChargingStatus_process_message_first_tuple(call, expect_first, msg, e) ==
    LET r == flag_of_self(call, expect_first) IN
    IF ~check_msg_v2(msg, ChargingStatus_expected, expect_first)
    THEN sequence_error(r, "ChargingStatus", msg)
    ELSE IF msg.type = "PowerDeliveryReq"
    THEN process_message("PowerDelivery", r, TRUE, msg, e)
    ELSE IF msg.type = "MeteringReceiptReq"
    THEN process_message("MeteringReceipt", r, TRUE, msg, e)
    ELSE
    LET res == [Res("ChargingStatusRes", "OK") EXCEPT
                   !.sa_schedule_tuple_id = 1,
                   !.evse_status = "AC",
                   !.receipt_required = FALSE]
    IN  not_expecting(create_next_message(r, "ChargingStatus", None, res))

ChargingStatus_process_message(call, expect_first, msg, e) ==
    LET r == flag_of_self(call, expect_first) IN
    IF ~check_msg_v2(msg, ChargingStatus_expected, expect_first)
    THEN sequence_error(r, "ChargingStatus", msg)
    ELSE IF msg.type = "PowerDeliveryReq"
    THEN process_message("PowerDelivery", r, TRUE, msg, e)
    ELSE IF msg.type = "MeteringReceiptReq"
    THEN process_message("MeteringReceipt", r, TRUE, msg, e)
    ELSE
    LET res == [Res("ChargingStatusRes", "OK") EXCEPT
                   !.sa_schedule_tuple_id = r.cs.selected_schedule,
                   !.evse_status = "AC",
                   !.receipt_required = FALSE]
        r1 == IF res.meter_info # NoInt
              THEN [r EXCEPT !.cs.sent_meter_info = res.meter_info]
              ELSE r
        state_next == IF res.receipt_required THEN "MeteringReceipt"
                      ELSE None
    IN  not_expecting(create_next_message(r1, "ChargingStatus", state_next,
                                          res))

\* (variant: the request's type is not checked)
SessionStop_process_message_unchecked(call, expect_first, msg, e) ==
    LET r == flag_of_self(call, expect_first) IN
    LET stopped == IF msg.charging_session = "Terminate"
                   THEN "terminated" ELSE "paused"
    IN  create_next_message(
            [r EXCEPT !.cs.stop_reason =
                          [successful |-> TRUE, reason |-> stopped]],
            "SessionStop", "Terminate", Res("SessionStopRes", "OK"))

\* (variant: a session that ends gives up its session id)
SessionStop_process_message_forget_id(call, expect_first, msg, e) ==
    LET r == flag_of_self(call, expect_first) IN
    IF ~check_msg_v2(msg, SessionStop_expected, TRUE)
    THEN sequence_error(r, "SessionStop", msg)
    ELSE
    LET stopped == IF msg.charging_session = "Terminate"
                   THEN "terminated" ELSE "paused"
    IN  create_next_message(
            [r EXCEPT !.cs.session_id =
                          IF stopped = "terminated" THEN None ELSE @,
                      !.cs.stop_reason =
                          [successful |-> TRUE, reason |-> stopped]],
            "SessionStop", "Terminate", Res("SessionStopRes", "OK"))

\* (variant: every stop is recorded as a termination)
SessionStop_process_message_always_terminated(call, expect_first, msg, e) ==
    LET r == flag_of_self(call, expect_first) IN
    IF ~check_msg_v2(msg, SessionStop_expected, TRUE)
    THEN sequence_error(r, "SessionStop", msg)
    ELSE create_next_message(
            [r EXCEPT !.cs.stop_reason =
                          [successful |-> TRUE, reason |-> "terminated"]],
            "SessionStop", "Terminate", Res("SessionStopRes", "OK"))

SessionStop_process_message(call, expect_first, msg, e) ==
    LET r == flag_of_self(call, expect_first) IN
    IF ~check_msg_v2(msg, SessionStop_expected, TRUE)
    THEN sequence_error(r, "SessionStop", msg)
    ELSE
    LET stopped == IF msg.charging_session = "Terminate"
                   THEN "terminated" ELSE "paused"
    IN  create_next_message(
            [r EXCEPT !.cs.stop_reason =
                          [successful |-> TRUE, reason |-> stopped]],
            "SessionStop", "Terminate", Res("SessionStopRes", "OK"))

\* get_state_by_msg_type
get_state_by_msg_type(message_type) ==
    CASE message_type = "SessionSetupReq" -> "SessionSetup"
      [] message_type = "ServiceDiscoveryReq" -> "ServiceDiscovery"
      [] message_type = "ServiceDetailReq" -> "ServiceDetail"
      [] message_type = "PaymentServiceSelectionReq" ->
            "PaymentServiceSelection"
      [] message_type = "CertificateInstallationReq" ->
            "CertificateInstallation"
      [] message_type = "PaymentDetailsReq" -> "PaymentDetails"
      [] message_type = "AuthorizationReq" -> "Authorization"
      [] message_type = "CableCheckReq" -> "CableCheck"
      [] message_type = "PreChargeReq" -> "PreCharge"
      [] message_type = "ChargeParameterDiscoveryReq" ->
            "ChargeParameterDiscovery"
      [] message_type = "PowerDeliveryReq" -> "PowerDelivery"
      [] message_type = "ChargingStatusReq" -> "ChargingStatus"
      [] message_type = "CurrentDemandReq" -> "CurrentDemand"
      [] message_type = "MeteringReceiptReq" -> "MeteringReceipt"
      [] message_type = "WeldingDetectionReq" -> "WeldingDetection"
      [] message_type = "SessionStopReq" -> "SessionStop"
      [] OTHER -> None

\* X(comm_session).process_message(message) for the state class named
process_message(state, r, expect_first, msg, e) ==
    CASE state = "SessionSetup" ->
            SessionSetup_process_message(r, expect_first, msg, e)
      [] state = "ServiceDiscovery" ->
            ServiceDiscovery_process_message(r, expect_first, msg, e)
      [] state = "ServiceDetail" ->
            ServiceDetail_process_message(r, expect_first, msg, e)
      [] state = "PaymentServiceSelection" ->
            PaymentServiceSelection_process_message(r, expect_first, msg, e)
      [] state = "CertificateInstallation" ->
            CertificateInstallation_process_message(r, expect_first, msg, e)
      [] state = "PaymentDetails" ->
            PaymentDetails_process_message(r, expect_first, msg, e)
      [] state = "Authorization" ->
            Authorization_process_message(r, expect_first, msg, e)
      [] state = "ChargeParameterDiscovery" ->
            ChargeParameterDiscovery_process_message(r, expect_first, msg, e)
      [] state = "PowerDelivery" ->
            PowerDelivery_process_message(r, expect_first, msg, e)
      [] state = "MeteringReceipt" ->
            MeteringReceipt_process_message(r, expect_first, msg, e)
      [] state = "CableCheck" ->
            CableCheck_process_message(r, expect_first, msg, e)
      [] state = "PreCharge" ->
            PreCharge_process_message(r, expect_first, msg, e)
      [] state = "ChargingStatus" ->
            ChargingStatus_process_message(r, expect_first, msg, e)
      [] state = "CurrentDemand" ->
            CurrentDemand_process_message(r, expect_first, msg, e)
      [] state = "WeldingDetection" ->
            WeldingDetection_process_message(r, expect_first, msg, e)
      [] state = "SessionStop" ->
            SessionStop_process_message(r, expect_first, msg, e)

----------------------------------------------------------------------------
(* The session handler.  A round for one request has two steps: the        *)
(* current state processes the request and the response in the output slot *)
(* is sent; then go_to_next_state runs and the handler turns to the next   *)
(* request, the round's request and answers being forgotten.               *)

Init ==
    /\ comm_session \in InitialSessions
    /\ current_state = "SessionSetup"
    /\ expecting = TRUE
    /\ pc = "read"
    /\ message = NoRequest
    /\ env = NoEnv
    /\ entry = [state |-> None, expecting |-> TRUE]
    /\ next_msg = NoMsg
    /\ next_state = None
    /\ created = 0
    /\ stopped_with = <<>>
    /\ raised = FALSE
    /\ elapsed = 0
    /\ script = <<>>

\* The current state processes a request and the response is sent.  The
\* state object that answered is the current state from then on.  An
\* exception out of process_message leaves nothing to send.
Handle(state, req) ==
    LET r == process_message(state, Call(comm_session), expecting,
                             req.msg, req.env)
    IN  /\ pc = "read"
        /\ pc' = "sent"
        /\ message' = req.msg
        /\ env' = req.env
        /\ entry' = [state |-> current_state, expecting |-> expecting]
        /\ comm_session' = r.cs
        /\ created' = r.created
        /\ stopped_with' = r.stopped_with
        /\ raised' = r.raised
        /\ next_msg' = IF r.raised THEN NoMsg ELSE r.next_msg
        /\ next_state' = r.next_state
        /\ elapsed' = 0
        /\ IF r.state # None
           THEN current_state' = r.state /\ expecting' = r.expecting
           ELSE UNCHANGED <<current_state, expecting>>

\* the types the state passes to check_msg_v2
expected_msg_types(state) ==
    CASE state = "SessionSetup" -> SessionSetup_expected
      [] state = "ServiceDiscovery" -> ServiceDiscovery_expected
      [] state = "ServiceDetail" -> ServiceDetail_expected
      [] state = "PaymentServiceSelection" -> PaymentServiceSelection_expected
      [] state = "CertificateInstallation" -> CertificateInstallation_expected
      [] state = "PaymentDetails" -> PaymentDetails_expected
      [] state = "Authorization" -> Authorization_expected
      [] state = "ChargeParameterDiscovery" ->
            ChargeParameterDiscovery_expected
      [] state = "PowerDelivery" -> PowerDelivery_expected
      [] state = "ChargingStatus" -> ChargingStatus_expected
      [] state = "MeteringReceipt" -> MeteringReceipt_expected
      [] state = "SessionStop" -> SessionStop_expected
      [] OTHER -> <<>>

\* the requests of a type
RequestsOfType(t) ==
    CASE t = "SessionSetupReq" -> SessionSetupReqs
      [] t = "ServiceDiscoveryReq" -> ServiceDiscoveryReqs
      [] t = "ServiceDetailReq" -> ServiceDetailReqs
      [] t = "PaymentServiceSelectionReq" -> PaymentServiceSelectionReqs
      [] t = "CertificateInstallationReq" -> CertificateInstallationReqs
      [] t = "PaymentDetailsReq" -> PaymentDetailsReqs
      [] t = "AuthorizationReq" -> AuthorizationReqs
      [] t = "ChargeParameterDiscoveryReq" -> ChargeParameterDiscoveryReqs
      [] t = "PowerDeliveryReq" -> PowerDeliveryReqs
      [] t = "MeteringReceiptReq" -> MeteringReceiptReqs
      [] t = "SessionStopReq" -> SessionStopReqs
      [] OTHER -> {[msg |-> Req(t), env |-> NoEnv]}

\* one request of each type
OneOfEachType == {CHOOSE req \in RequestsOfType(t) : TRUE : t \in ReqTypes}

\* The requests a state is offered: every request of the types it names to
\* check_msg_v2, and one request of each type (check_msg_v2 reads nothing
\* but the type of a request it turns down).
Inbound(state) ==
    UNION {RequestsOfType(t) : t \in Range(expected_msg_types(state))}
    \cup OneOfEachType

\* one action per state class a request can find current
SessionSetup ==
    /\ current_state = "SessionSetup"
    /\ \E req \in Inbound("SessionSetup") : Handle("SessionSetup", req)
    /\ UNCHANGED script

ServiceDiscovery ==
    /\ current_state = "ServiceDiscovery"
    /\ \E req \in Inbound("ServiceDiscovery") : Handle("ServiceDiscovery", req)
    /\ UNCHANGED script

ServiceDetail ==
    /\ current_state = "ServiceDetail"
    /\ \E req \in Inbound("ServiceDetail") : Handle("ServiceDetail", req)
    /\ UNCHANGED script

PaymentServiceSelection ==
    /\ current_state = "PaymentServiceSelection"
    /\ \E req \in Inbound("PaymentServiceSelection") : Handle("PaymentServiceSelection", req)
    /\ UNCHANGED script

PaymentDetails ==
    /\ current_state = "PaymentDetails"
    /\ \E req \in Inbound("PaymentDetails") : Handle("PaymentDetails", req)
    /\ UNCHANGED script

Authorization ==
    /\ current_state = "Authorization"
    /\ \E req \in Inbound("Authorization") : Handle("Authorization", req)
    /\ UNCHANGED script

ChargeParameterDiscovery ==
    /\ current_state = "ChargeParameterDiscovery"
    /\ \E req \in Inbound("ChargeParameterDiscovery") : Handle("ChargeParameterDiscovery", req)
    /\ UNCHANGED script

PowerDelivery ==
    /\ current_state = "PowerDelivery"
    /\ \E req \in Inbound("PowerDelivery") : Handle("PowerDelivery", req)
    /\ UNCHANGED script

ChargingStatus ==
    /\ current_state = "ChargingStatus"
    /\ \E req \in Inbound("ChargingStatus") : Handle("ChargingStatus", req)
    /\ UNCHANGED script

MeteringReceipt ==
    /\ current_state = "MeteringReceipt"
    /\ \E req \in Inbound("MeteringReceipt") : Handle("MeteringReceipt", req)
    /\ UNCHANGED script

SessionStop ==
    /\ current_state = "SessionStop"
    /\ \E req \in Inbound("SessionStop") : Handle("SessionStop", req)
    /\ UNCHANGED script

\* go_to_next_state: a new object of the named next state becomes the
\* current state; the session ends with Terminate or after an exception
go_to_next_state ==
    /\ pc = "sent"
    /\ pc' = "read"
    /\ IF raised \/ next_state = "Terminate"
       THEN current_state' = "Terminate" /\ expecting' = TRUE
       ELSE IF next_state # None
       THEN current_state' = next_state /\ expecting' = TRUE
       ELSE UNCHANGED <<current_state, expecting>>
    /\ message' = NoRequest
    /\ env' = NoEnv
    /\ entry' = [state |-> None, expecting |-> TRUE]
    /\ next_msg' = NoMsg
    /\ next_state' = None
    /\ created' = 0
    /\ stopped_with' = <<>>
    /\ raised' = FALSE
    /\ elapsed' = 0
    /\ UNCHANGED <<comm_session, script>>

Next ==
    \/ SessionSetup
    \/ ServiceDiscovery
    \/ ServiceDetail
    \/ PaymentServiceSelection
    \/ PaymentDetails
    \/ Authorization
    \/ ChargeParameterDiscovery
    \/ PowerDelivery
    \/ ChargingStatus
    \/ MeteringReceipt
    \/ SessionStop
    \/ go_to_next_state

Spec == Init /\ [][Next]_vars

----------------------------------------------------------------------------
(* The sequence timeout.  The handler waits for the next request no longer *)
(* than the timeout the current state was constructed with; time is        *)
(* counted in seconds.                                                     *)

\* Timeouts
V2G_SECC_SEQUENCE_TIMEOUT == 60
V2G_EVCC_COMMUNICATION_SETUP_TIMEOUT == 20
V2G_SECC_READYTOCHARGE_PERFORMANCE_TIME == 148

\* (variant: the states other than SessionSetup are given another member
\* of Timeouts)
state_timeout_ready_to_charge(state) ==
    IF state = "SessionSetup"
    THEN V2G_EVCC_COMMUNICATION_SETUP_TIMEOUT
    ELSE V2G_SECC_READYTOCHARGE_PERFORMANCE_TIME

\* the timeout a state object hands to StateSECC.__init__
state_timeout(state) ==
    IF state = "SessionSetup"
    THEN V2G_EVCC_COMMUNICATION_SETUP_TIMEOUT
    ELSE V2G_SECC_SEQUENCE_TIMEOUT

\* the handler is waiting for a request and the timeout has not expired
Waiting ==
    /\ pc = "read"
    /\ current_state # "Terminate"
    /\ elapsed < state_timeout(current_state)

\* a second passes without a request
Tick ==
    /\ Waiting
    /\ elapsed' = elapsed + 1
    /\ UNCHANGED <<comm_session, current_state, expecting, pc, message, env,
                   entry, next_msg, next_state, created, stopped_with,
                   raised, script>>

\* the moments at which a request may arrive: at once, or in the last
\* second before the timeout (what a state does with a request does not
\* depend on the moment)
ArrivalTimes(state) == {0, state_timeout(state) - 1}

\* a request arrives in time
Arrive ==
    /\ Waiting
    /\ elapsed \in ArrivalTimes(current_state)
    /\ \E req \in Inbound(current_state) : Handle(current_state, req)
    /\ UNCHANGED script

\* the timeout expires: the session is stopped and nothing is sent
Timeout ==
    /\ pc = "read"
    /\ current_state # "Terminate"
    /\ elapsed >= state_timeout(current_state)
    /\ current_state' = "Terminate"
    /\ comm_session' =
            [comm_session EXCEPT
                !.stop_reason = [successful |-> FALSE, reason |-> "timeout"]]
    /\ UNCHANGED <<expecting, pc, message, env, entry, next_msg, next_state,
                   created, stopped_with, raised, elapsed, script>>

\* a session on a TLS connection, configured for EIM and PnC
InitTimeout ==
    /\ Init
    /\ comm_session.session_id = None
    /\ comm_session.is_tls
    /\ comm_session.config.supported_auth_options = {"EIM", "PNC"}
    /\ comm_session.config.allow_cert_install_service

NextTimeout ==
    \/ Arrive
    \/ go_to_next_state
    \/ Tick
    \/ Timeout

SpecTimeout == InitTimeout /\ [][NextTimeout]_vars

----------------------------------------------------------------------------
(* An EVCC that sends a fixed sequence of requests, one after each         *)
(* response, for as long as the session lasts.                             *)

MaxDemands == 2

SessionSetupReqNew(id) ==
    [msg |-> [Req("SessionSetupReq") EXCEPT !.session_id = ZeroId],
     env |-> [NoEnv EXCEPT !.random_id = id]]

PaymentServiceSelectionReqOf(auth) ==
    [msg |-> [Req("PaymentServiceSelectionReq") EXCEPT
                  !.selected_services = {CHARGING},
                  !.selected_auth_option = auth],
     env |-> NoEnv]

AuthorizationReqFinished ==
    [msg |-> Req("AuthorizationReq"),
     env |-> [NoEnv EXCEPT !.is_authorised = TRUE]]

\* the station supports the mode asked for and returns the schedules
ChargeParameterDiscoveryReqOf(mode, list) ==
    [msg |-> [Req("ChargeParameterDiscoveryReq") EXCEPT
                  !.requested_energy_mode = mode,
                  !.ac_ev_charge_parameter = (mode = "AC_three_phase_core")],
     env |-> [NoEnv EXCEPT !.supported_modes = {mode},
                           !.sa_schedule_list = list]]

PowerDeliveryReqOf(progress) ==
    [msg |-> [Req("PowerDeliveryReq") EXCEPT
                  !.sa_schedule_tuple_id = 1, !.charge_progress = progress,
                  !.charging_profile = TRUE],
     env |-> NoEnv]

SessionStopReqOf(charging_session) ==
    [msg |-> [Req("SessionStopReq") EXCEPT
                  !.charging_session = charging_session],
     env |-> NoEnv]

Plain(t) == [msg |-> Req(t), env |-> NoEnv]

\* the EIM DC run with n CurrentDemandReq
EimDcRun(id, list, n) ==
    << SessionSetupReqNew(id),
       Plain("ServiceDiscoveryReq"),
       PaymentServiceSelectionReqOf(EIM_V2),
       AuthorizationReqFinished,
       ChargeParameterDiscoveryReqOf("DC_extended", list),
       PowerDeliveryReqOf("Start") >>
    \o [i \in 1..n |-> Plain("CurrentDemandReq")]
    \o << PowerDeliveryReqOf("Stop"),
          Plain("WeldingDetectionReq"),
          SessionStopReqOf("Terminate") >>

EimDcRuns ==
    {EimDcRun(id, list, n)
     : id \in RandomIds, list \in {l \in ScheduleLists : Len(l) >= 1},
       n \in 1..MaxDemands}

\* the EVCC sends the next request of its sequence
RunStep ==
    /\ pc = "read"
    /\ current_state # "Terminate"
    /\ script # <<>>
    /\ Handle(current_state, Head(script))
    /\ script' = Tail(script)

\* a new session of a station that offers EIM, with an EVCC that is about
\* to send an EIM DC run
InitDcRun ==
    /\ comm_session \in
            {cs \in InitialSessions :
                /\ cs.session_id = None
                /\ "EIM" \in cs.config.supported_auth_options}
    /\ current_state = "SessionSetup"
    /\ expecting = TRUE
    /\ pc = "read"
    /\ message = NoRequest
    /\ env = NoEnv
    /\ entry = [state |-> None, expecting |-> TRUE]
    /\ next_msg = NoMsg
    /\ next_state = None
    /\ created = 0
    /\ stopped_with = <<>>
    /\ raised = FALSE
    /\ elapsed = 0
    /\ script \in EimDcRuns

NextRun ==
    \/ RunStep
    \/ go_to_next_state

SpecDcRun == InitDcRun /\ [][NextRun]_vars

----------------------------------------------------------------------------
(* A state object built on a context as the unit tests build it: the       *)
(* session has an id, schedules were offered and DC was selected, and the  *)
(* state's expecting flag has been cleared before the request comes.       *)

TestSessions ==
    {[NewSession(t, c, id, a) EXCEPT
        !.evcc_id = "evcc",
        !.offered_auth_options = <<a>>,
        !.offered_services = {CHARGING},
        !.selected_energy_mode = "DC_extended",
        !.offered_schedules = list,
        !.charge_progress_started = started,
        !.stop_reason = [successful |-> FALSE, reason |-> "pytest"]]
     : t \in BOOLEAN, c \in ResumeConfigs, id \in PausedIds,
       a \in AuthOptions, list \in {l \in ScheduleLists : Len(l) >= 1},
       started \in BOOLEAN}

InitStateTest ==
    /\ comm_session \in TestSessions
    /\ current_state \in {"PowerDelivery", "CurrentDemand"}
    /\ expecting = FALSE
    /\ pc = "read"
    /\ message = NoRequest
    /\ env = NoEnv
    /\ entry = [state |-> None, expecting |-> TRUE]
    /\ next_msg = NoMsg
    /\ next_state = None
    /\ created = 0
    /\ stopped_with = <<>>
    /\ raised = FALSE
    /\ elapsed = 0
    /\ script = <<>>

\* CurrentDemand is the current state and is given a request (it names no
\* types to check_msg_v2: it raises before)
CurrentDemand ==
    /\ current_state = "CurrentDemand"
    /\ \E req \in OneOfEachType : Handle("CurrentDemand", req)
    /\ UNCHANGED script

NextStateTest ==
    \/ PowerDelivery
    \/ CurrentDemand
    \/ go_to_next_state

SpecStateTest == InitStateTest /\ [][NextStateTest]_vars

----------------------------------------------------------------------------
(* Properties of the request/response rounds                               *)

\* a request has been processed and the round's record is at hand
Answered == pc = "sent"

\* the step in which the current state processes a request
Round == pc = "read" /\ pc' = "sent"

\* the response type that belongs to a request type
ResponseTypeOf(t) ==
    CASE t = "SessionSetupReq" -> "SessionSetupRes"
      [] t = "ServiceDiscoveryReq" -> "ServiceDiscoveryRes"
      [] t = "ServiceDetailReq" -> "ServiceDetailRes"
      [] t = "PaymentServiceSelectionReq" -> "PaymentServiceSelectionRes"
      [] t = "CertificateInstallationReq" -> "CertificateInstallationRes"
      [] t = "CertificateUpdateReq" -> "CertificateUpdateRes"
      [] t = "PaymentDetailsReq" -> "PaymentDetailsRes"
      [] t = "AuthorizationReq" -> "AuthorizationRes"
      [] t = "ChargeParameterDiscoveryReq" -> "ChargeParameterDiscoveryRes"
      [] t = "PowerDeliveryReq" -> "PowerDeliveryRes"
      [] t = "ChargingStatusReq" -> "ChargingStatusRes"
      [] t = "CableCheckReq" -> "CableCheckRes"
      [] t = "PreChargeReq" -> "PreChargeRes"
      [] t = "CurrentDemandReq" -> "CurrentDemandRes"
      [] t = "MeteringReceiptReq" -> "MeteringReceiptRes"
      [] t = "WeldingDetectionReq" -> "WeldingDetectionRes"
      [] t = "SessionStopReq" -> "SessionStopRes"

\* the request types a state object accepts: before its first request only
\* the first of the types it names, afterwards all of them
Accepted(state, expect_first) ==
    IF expect_first
    THEN {expected_msg_types(state)[1]}
    ELSE Range(expected_msg_types(state))

\* C1: in every state, a request whose type is not among the types the
\* state accepts at that moment is answered with the registry's failed
\* response for the type of the request received, carrying
\* FAILED_SEQUENCE_ERROR, and the next state is Terminate.
C1_SequenceError ==
    (Answered /\ message.type \notin Accepted(entry.state, entry.expecting))
    => /\ next_msg.type = ResponseTypeOf(message.type)
       /\ next_msg =
            [failed_response_iso_v2(message.type) EXCEPT
                !.response_code = "FAILED_SEQUENCE_ERROR",
                !.session_id = comm_session.session_id]
       /\ next_state = "Terminate"

\* a state that has had its first request turns down a request of a type
\* it does not name
C1_Witness ==
    /\ Answered
    /\ entry.state = "ChargingStatus"
    /\ ~entry.expecting
    /\ message.type = "SessionStopReq"
    /\ next_msg.type = "SessionStopRes"
    /\ next_msg.response_code = "FAILED_SEQUENCE_ERROR"
    /\ next_state = "Terminate"

\* the ids that ask for a new session: zero bytes
AllZeroIds == {ZeroId, Zero8Id}

\* the round has established a new session under a fresh id
NewSessionEstablished ==
    /\ next_msg'.response_code = "OK_NEW_SESSION_ESTABLISHED"
    /\ comm_session'.session_id = env'.random_id
    /\ comm_session'.session_id \in RandomIds

\* C2: SessionSetup answers a SessionSetupReq with
\* OK_NEW_SESSION_ESTABLISHED when the request's id is all zero, with
\* OK_OLD_SESSION_JOINED when it is non-zero and equal to the context's
\* session id, with OK_NEW_SESSION_ESTABLISHED for any other id; on resume
\* the context keeps its id, otherwise it gets a freshly generated one; the
\* next state is ServiceDiscovery in all three cases.
C2_SessionSetup ==
    [][(/\ Round
        /\ current_state = "SessionSetup"
        /\ message'.type = "SessionSetupReq")
       => /\ next_state' = "ServiceDiscovery"
          /\ next_msg'.type = "SessionSetupRes"
          /\ IF message'.session_id \in AllZeroIds
             THEN NewSessionEstablished
             ELSE IF message'.session_id = comm_session.session_id
             THEN /\ next_msg'.response_code = "OK_OLD_SESSION_JOINED"
                  /\ comm_session'.session_id = comm_session.session_id
             ELSE NewSessionEstablished]_vars

\* a paused session has been resumed under its id
C2_Witness ==
    /\ Answered
    /\ entry.state = "SessionSetup"
    /\ message.session_id \in PausedIds
    /\ next_msg.response_code = "OK_OLD_SESSION_JOINED"
    /\ comm_session.session_id = message.session_id
    /\ next_state = "ServiceDiscovery"

\* C3: once SessionSetup has run, every response carries the session id
\* the context holds, and no state other than SessionSetup changes the
\* context's session id.
C3_SessionId ==
    [][(Round /\ current_state # "SessionSetup")
       => /\ comm_session'.session_id = comm_session.session_id
          /\ next_msg' # NoMsg
                => next_msg'.session_id = comm_session'.session_id]_vars

\* late in a session a response carries the id SessionSetup generated
C3_Witness ==
    /\ Answered
    /\ entry.state = "SessionStop"
    /\ next_msg.type = "SessionStopRes"
    /\ next_msg.response_code = "OK"
    /\ next_msg.session_id \in RandomIds
    /\ comm_session.session_id = next_msg.session_id

\* C4: whenever a state calls stop_state_machine, the response emitted for
\* the request carries the FAILED_* code given to that call, never an OK*
\* code, and the next state is Terminate.
C4_AbortCode ==
    (Answered /\ stopped_with # <<>>)
    => /\ next_msg.response_code = stopped_with[Len(stopped_with)]
       /\ next_msg.response_code \in FailedCodes
       /\ next_msg.response_code \notin OkCodes
       /\ next_state = "Terminate"

\* C5: process_message never raises an exception, whatever the state
\* (CableCheck, PreCharge, CurrentDemand and WeldingDetection included)
\* and whatever request a session brings to it.
C5_NeverRaises == ~raised

\* C6: every request a session processes has exactly one response, which
\* is emitted before the next request is read.
C6_OneResponse == Answered => next_msg # NoMsg

\* C7: ChargeParameterDiscovery answers a request for an energy-transfer
\* mode the controller does not support with
\* FAILED_WRONG_ENERGY_TRANSFER_MODE and terminates without setting
\* selected_energy_mode; a selected_energy_mode that gets set is one of the
\* modes the controller supported at the time of the request.
C7_EnergyMode ==
    [][Round
       => /\ (/\ current_state' = "ChargeParameterDiscovery"
              /\ message'.type = "ChargeParameterDiscoveryReq"
              /\ message'.requested_energy_mode \notin env'.supported_modes)
             => /\ next_msg'.response_code =
                        "FAILED_WRONG_ENERGY_TRANSFER_MODE"
                /\ next_state' = "Terminate"
                /\ comm_session'.selected_energy_mode =
                        comm_session.selected_energy_mode
          /\ comm_session'.selected_energy_mode #
                        comm_session.selected_energy_mode
             => /\ current_state' = "ChargeParameterDiscovery"
                /\ message'.type = "ChargeParameterDiscoveryReq"
                /\ comm_session'.selected_energy_mode
                        \in env'.supported_modes]_vars

\* a session that has a mode selected asks for an unsupported one
C7_Witness ==
    /\ Answered
    /\ current_state = "ChargeParameterDiscovery"
    /\ message.type = "ChargeParameterDiscoveryReq"
    /\ message.requested_energy_mode \notin env.supported_modes
    /\ comm_session.selected_energy_mode \in env.supported_modes
    /\ next_msg.response_code = "FAILED_WRONG_ENERGY_TRANSFER_MODE"

\* C8: PowerDelivery answers a PowerDeliveryReq with Start, an offered
\* tuple id and no charging profile with FAILED_CHARGING_PROFILE_INVALID
\* and terminates; a request without a charging profile never changes
\* charge_progress_started.
C8_ChargingProfile ==
    [][Round
       => /\ (/\ current_state' = "PowerDelivery"
              /\ message'.type = "PowerDeliveryReq"
              /\ message'.charge_progress = "Start"
              /\ ~message'.charging_profile
              /\ message'.sa_schedule_tuple_id
                    \in ScheduleIds(comm_session.offered_schedules))
             => /\ next_msg'.response_code =
                        "FAILED_CHARGING_PROFILE_INVALID"
                /\ next_state' = "Terminate"
          /\ ~message'.charging_profile
             => comm_session'.charge_progress_started =
                    comm_session.charge_progress_started]_vars

\* a Start without a profile has been turned down
C8_Witness ==
    /\ Answered
    /\ current_state = "PowerDelivery"
    /\ message.type = "PowerDeliveryReq"
    /\ message.charge_progress = "Start"
    /\ ~message.charging_profile
    /\ message.sa_schedule_tuple_id
            \in ScheduleIds(comm_session.offered_schedules)
    /\ ~comm_session.charge_progress_started
    /\ next_msg.response_code = "FAILED_CHARGING_PROFILE_INVALID"

\* C9: PowerDelivery answers a PowerDeliveryReq whose tuple id is not the
\* id of an offered schedule with FAILED_TARIFF_SELECTION_INVALID and
\* terminates, whatever its charge_progress is.
C9_TariffSelection ==
    [][(/\ Round
        /\ current_state' = "PowerDelivery"
        /\ message'.type = "PowerDeliveryReq"
        /\ message'.sa_schedule_tuple_id
                \notin ScheduleIds(comm_session.offered_schedules))
       => /\ next_msg'.response_code = "FAILED_TARIFF_SELECTION_INVALID"
          /\ next_state' = "Terminate"]_vars

\* a Stop that names a tuple id next to the offered ones is turned down
C9_Witness ==
    /\ Answered
    /\ current_state = "PowerDelivery"
    /\ message.type = "PowerDeliveryReq"
    /\ message.charge_progress = "Stop"
    /\ comm_session.offered_schedules # <<>>
    /\ message.sa_schedule_tuple_id
            \notin ScheduleIds(comm_session.offered_schedules)
    /\ next_msg.response_code = "FAILED_TARIFF_SELECTION_INVALID"
    /\ next_state = "Terminate"

\* C10: MeteringReceipt answers a MeteringReceiptReq with OK only if the
\* request's meter reading equals the reading last sent, the session's
\* sent_meter_info.
C10_ReceiptMatches ==
    (/\ Answered
     /\ current_state = "MeteringReceipt"
     /\ message.type = "MeteringReceiptReq"
     /\ next_msg.response_code = "OK")
    => message.meter_reading = comm_session.sent_meter_info

\* C11: once selected_auth_option is set, every ServiceDiscoveryRes that
\* ServiceDiscovery gives (after a resume in particular) offers exactly
\* one auth option, the selected one, whatever the configured auth options
\* and the TLS status are.
C11_SelectedOptionOnly ==
    [][(/\ Round
        /\ comm_session.selected_auth_option # None
        /\ current_state' = "ServiceDiscovery"
        /\ message'.type = "ServiceDiscoveryReq")
       => /\ next_msg'.type = "ServiceDiscoveryRes"
          /\ next_msg'.auth_options = <<comm_session.selected_auth_option>>
          /\ comm_session'.offered_auth_options = next_msg'.auth_options
          /\ comm_session'.selected_auth_option =
                comm_session.selected_auth_option]_vars

\* a resumed session without TLS, configured for EIM alone, is offered
\* PnC, the option selected before the pause
C11_Witness ==
    /\ Answered
    /\ current_state = "ServiceDiscovery"
    /\ message.type = "ServiceDiscoveryReq"
    /\ comm_session.session_id \in PausedIds
    /\ comm_session.selected_auth_option = PNC_V2
    /\ comm_session.config.supported_auth_options = {"EIM"}
    /\ ~comm_session.is_tls
    /\ next_msg.auth_options = <<PNC_V2>>

\* C12: a session whose selected auth option is PnC and that runs without
\* TLS never has a PaymentDetailsReq processed by PaymentDetails, a
\* resumed session included.
C12_PnCNeedsTLS ==
    (/\ Answered
     /\ current_state = "PaymentDetails"
     /\ message.type = "PaymentDetailsReq"
     /\ comm_session.selected_auth_option = PNC_V2)
    => comm_session.is_tls

\* C13: when no request arrives within the current state's sequence
\* timeout (at most V2G_SECC_SEQUENCE_TIMEOUT, 60 s), the session
\* terminates and nothing is sent for the timeout; after it no request of
\* the session is processed.
C13_SequenceTimeout ==
    [][/\ elapsed' <= V2G_SECC_SEQUENCE_TIMEOUT
       /\ (/\ pc = "read"
           /\ current_state # "Terminate"
           /\ elapsed = V2G_SECC_SEQUENCE_TIMEOUT)
          => /\ current_state' = "Terminate"
             /\ pc' = "read"
             /\ next_msg' = NoMsg
             /\ created' = 0
             /\ ~comm_session'.stop_reason.successful
       /\ current_state = "Terminate" => pc' = "read"]_vars

\* a session that has been set up was stopped after 60 s without a request
C13_Witness ==
    /\ current_state = "Terminate"
    /\ comm_session.stop_reason.reason = "timeout"
    /\ comm_session.session_id \in RandomIds
    /\ elapsed = V2G_SECC_SEQUENCE_TIMEOUT
    /\ pc = "read"
    /\ next_msg = NoMsg

\* the response type that answers a request type, in each of the three
\* protocols
PairedResponse(t) ==
    CASE t = "SessionSetupReq" -> "SessionSetupRes"
      [] t = "ServiceDiscoveryReq" -> "ServiceDiscoveryRes"
      [] t = "ServiceDetailReq" -> "ServiceDetailRes"
      [] t = "PaymentServiceSelectionReq" -> "PaymentServiceSelectionRes"
      [] t = "ServicePaymentSelectionReq" -> "ServicePaymentSelectionRes"
      [] t = "ServiceSelectionReq" -> "ServiceSelectionRes"
      [] t = "CertificateInstallationReq" -> "CertificateInstallationRes"
      [] t = "CertificateUpdateReq" -> "CertificateUpdateRes"
      [] t = "PaymentDetailsReq" -> "PaymentDetailsRes"
      [] t = "AuthorizationReq" -> "AuthorizationRes"
      [] t = "AuthorizationSetupReq" -> "AuthorizationSetupRes"
      [] t = "ContractAuthenticationReq" -> "ContractAuthenticationRes"
      [] t = "ChargeParameterDiscoveryReq" -> "ChargeParameterDiscoveryRes"
      [] t = "ACChargeParameterDiscoveryReq" ->
            "ACChargeParameterDiscoveryRes"
      [] t = "DCChargeParameterDiscoveryReq" ->
            "DCChargeParameterDiscoveryRes"
      [] t = "ScheduleExchangeReq" -> "ScheduleExchangeRes"
      [] t = "PowerDeliveryReq" -> "PowerDeliveryRes"
      [] t = "ChargingStatusReq" -> "ChargingStatusRes"
      [] t = "ACChargeLoopReq" -> "ACChargeLoopRes"
      [] t = "CableCheckReq" -> "CableCheckRes"
      [] t = "PreChargeReq" -> "PreChargeRes"
      [] t = "CurrentDemandReq" -> "CurrentDemandRes"
      [] t = "MeteringReceiptReq" -> "MeteringReceiptRes"
      [] t = "MeteringConfirmationReq" -> "MeteringConfirmationRes"
      [] t = "WeldingDetectionReq" -> "WeldingDetectionRes"
      [] t = "SessionStopReq" -> "SessionStopRes"

\* C14: for every request type the DIN SPEC 70121, ISO 15118-2 and
\* ISO 15118-20 registries cover, and for every request a state of the
\* session has received, the registry holds a record of the matching
\* response type whose response_code is FAILED.
C14_RegistryComplete ==
    /\ \A t \in DinSpecReqTypes :
          /\ init_failed_responses_din_spec_70121(t).type = PairedResponse(t)
          /\ init_failed_responses_din_spec_70121(t).response_code = "FAILED"
    /\ \A t \in ReqTypes :
          /\ init_failed_responses_iso_v2(t).type = PairedResponse(t)
          /\ init_failed_responses_iso_v2(t).response_code = "FAILED"
    /\ \A t \in IsoV20ReqTypes :
          /\ init_failed_responses_iso_v20(t).type = PairedResponse(t)
          /\ init_failed_responses_iso_v20(t).response_code = "FAILED"
    /\ message # NoRequest =>
          /\ message.type \in ReqTypes
          /\ init_failed_responses_iso_v2(message.type).type =
                PairedResponse(message.type)
          /\ init_failed_responses_iso_v2(message.type).response_code
                \in FailedCodes

\* a state has turned down a CurrentDemandReq with the registry's record
C14_Witness ==
    /\ Answered
    /\ message.type = "CurrentDemandReq"
    /\ stopped_with # <<>>
    /\ next_msg.type = "CurrentDemandRes"
    /\ next_msg.response_code = "FAILED_SEQUENCE_ERROR"

\* C16: every request of the EIM DC run is answered with an OK code and
\* the run ends in Terminate: the session is in Terminate when, and only
\* when, the EVCC has sent the whole run.
C16_DcRunAccepted ==
    /\ Answered => ~raised /\ next_msg.response_code \in OkCodes
    /\ pc = "read" => (current_state = "Terminate" <=> script = <<>>)

\* C17: PowerDelivery that has had its first PowerDeliveryReq accepts a
\* WeldingDetectionReq and hands it to WeldingDetection, which is the
\* session's current state from then on.
C17_ToWeldingDetection ==
    (/\ Answered
     /\ entry.state = "PowerDelivery"
     /\ ~entry.expecting
     /\ message.type = "WeldingDetectionReq")
    => /\ current_state = "WeldingDetection"
       /\ stopped_with = <<>>
       /\ next_msg.response_code \notin FailedCodes

\* C18: CurrentDemand that has had its first CurrentDemandReq accepts a
\* PowerDeliveryReq and hands it to PowerDelivery, which is the session's
\* current state from then on.
C18_ToPowerDelivery ==
    (/\ Answered
     /\ entry.state = "CurrentDemand"
     /\ ~entry.expecting
     /\ message.type = "PowerDeliveryReq")
    => /\ ~raised
       /\ current_state = "PowerDelivery"

\* the states that name alternatives to their primary request type
FirstVisitStates ==
    {"ServiceDiscovery", "ServiceDetail", "PaymentServiceSelection",
     "ChargeParameterDiscovery", "PowerDelivery", "ChargingStatus",
     "MeteringReceipt"}

\* the primary request type of a state: the first type it names
Primary(state) == expected_msg_types(state)[1]

\* a state object that has not yet had its primary request turns down
\* every alternative as a sequence error
AlternativeTooEarly ==
    (/\ Answered
     /\ entry.state \in FirstVisitStates
     /\ entry.expecting
     /\ message.type \in
            Range(expected_msg_types(entry.state)) \ {Primary(entry.state)})
    => /\ stopped_with = <<"FAILED_SEQUENCE_ERROR">>
       /\ next_msg.response_code = "FAILED_SEQUENCE_ERROR"
       /\ next_state = "Terminate"

\* a state object's flag is clear only when the object has just answered
\* its primary request with OK, or had done so before
FlagClearedByPrimary ==
    /\ (Answered /\ ~expecting /\ (entry.expecting \/ entry.state # current_state))
        => /\ current_state \in FirstVisitStates
           /\ message.type = Primary(current_state)
           /\ next_msg.response_code \in OkCodes
    /\ (pc = "read" /\ ~expecting) => current_state \in FirstVisitStates

\* a state object that has had its primary request passes every type of
\* its accepted set
AcceptedSetOpen ==
    (/\ Answered
     /\ entry.state \in FirstVisitStates
     /\ ~entry.expecting
     /\ message.type \in Range(expected_msg_types(entry.state)))
    => "FAILED_SEQUENCE_ERROR" \notin Range(stopped_with)

\* C21 as stated: first-visit rule.  Before a state of FirstVisitStates
\* has answered its primary request with OK once it accepts only that
\* type; once it has answered one with OK it accepts every type of its
\* accepted set.
C21_FirstVisit ==
    /\ AlternativeTooEarly
    /\ FlagClearedByPrimary
    /\ AcceptedSetOpen
    /\ (/\ Answered
        /\ current_state \in FirstVisitStates
        /\ message.type = Primary(current_state)
        /\ next_msg.response_code \in OkCodes)
       => ~expecting

\* C21 amended: as C21, but a ChargeParameterDiscoveryReq answered OK with
\* EVSEProcessing Ongoing does not open the accepted set of
\* ChargeParameterDiscovery; only one answered with Finished does.
C21_FirstVisitAmended ==
    /\ AlternativeTooEarly
    /\ FlagClearedByPrimary
    /\ AcceptedSetOpen
    /\ (/\ Answered
        /\ current_state \in FirstVisitStates
        /\ message.type = Primary(current_state)
        /\ next_msg.response_code \in OkCodes)
       => (expecting <=> /\ current_state = "ChargeParameterDiscovery"
                         /\ next_msg.evse_processing = "Ongoing")

\* ServiceDiscovery has had its ServiceDiscoveryReq and passes a
\* ServiceDetailReq on to ServiceDetail
C21_Witness ==
    /\ Answered
    /\ entry.state = "ServiceDiscovery"
    /\ ~entry.expecting
    /\ message.type = "ServiceDetailReq"
    /\ current_state = "ServiceDetail"
    /\ ~expecting
    /\ next_msg.response_code = "OK"

\* a round in which PowerDelivery gets a PowerDeliveryReq that passes its
\* validation: the type is accepted where it arrives, the tuple id is the
\* id of an offered schedule and a Start comes with a charging profile
PowerDeliveryValidated ==
    /\ Round
    /\ message'.type = "PowerDeliveryReq"
    /\ "PowerDeliveryReq" \in Accepted(current_state, expecting)
    /\ message'.sa_schedule_tuple_id \in
            ScheduleIds(comm_session.offered_schedules)
    /\ ~(message'.charge_progress = "Start" /\ ~message'.charging_profile)

\* C22: a PowerDeliveryReq that passes validation is answered OK; with
\* Start the next state is ChargingStatus, selected_schedule becomes the
\* request's tuple id and charge_progress_started becomes true; with Stop
\* the next state is SessionStop and both fields stay as they were.
C22_StartStop ==
    [][PowerDeliveryValidated
       => /\ next_msg'.type = "PowerDeliveryRes"
          /\ next_msg'.response_code = "OK"
          /\ message'.charge_progress = "Start"
             => /\ next_state' = "ChargingStatus"
                /\ comm_session'.selected_schedule =
                        message'.sa_schedule_tuple_id
                /\ comm_session'.charge_progress_started
          /\ message'.charge_progress = "Stop"
             => /\ next_state' = "SessionStop"
                /\ comm_session'.selected_schedule =
                        comm_session.selected_schedule
                /\ comm_session'.charge_progress_started =
                        comm_session.charge_progress_started]_vars

C22_Witness ==
    /\ Answered
    /\ entry.state = "PowerDelivery"
    /\ message.type = "PowerDeliveryReq"
    /\ message.charge_progress = "Start"
    /\ message.charging_profile
    /\ next_msg.response_code = "OK"
    /\ next_state = "ChargingStatus"
    /\ comm_session.selected_schedule = message.sa_schedule_tuple_id
    /\ comm_session.charge_progress_started

\* C23: a PowerDeliveryReq with Renegotiate and an offered tuple id is
\* answered OK with next state ChargeParameterDiscovery if and only if
\* charge_progress_started is true; if it is not, the response emitted
\* carries FAILED and the next state is Terminate.
C23_Renegotiate ==
    [][(PowerDeliveryValidated /\ message'.charge_progress = "Renegotiate")
       => /\ next_msg'.type = "PowerDeliveryRes"
          /\ (/\ next_msg'.response_code = "OK"
              /\ next_state' = "ChargeParameterDiscovery")
             <=> comm_session.charge_progress_started
          /\ ~comm_session.charge_progress_started
             => /\ next_msg'.response_code = "FAILED"
                /\ next_state' = "Terminate"]_vars

\* the response codes of the conditions (i), (ii), (iii) of
\* PaymentServiceSelection that a request fails in a session
SelectionFailures(msg, cs) ==
    (IF CHARGING \notin msg.selected_services
     THEN {"FAILED_NO_CHARGE_SERVICE_SELECTED"} ELSE {})
    \cup
    (IF msg.selected_services \ {CHARGING} \subseteq cs.offered_services
     THEN {} ELSE {"FAILED_SERVICE_SELECTION_INVALID"})
    \cup
    (IF msg.selected_auth_option \in Range(cs.offered_auth_options)
     THEN {} ELSE {"FAILED_PAYMENT_SELECTION_INVALID"})

\* C24: PaymentServiceSelection answers a PaymentServiceSelectionReq with
\* OK, sets selected_auth_option to the requested option and names no next
\* state exactly when the charge service is selected, every other selected
\* service was offered and the selected auth option was offered; otherwise
\* the response carries the code of a condition the request fails (of the
\* only one, when it fails one) and the next state is Terminate.
C24_Selection ==
    [][(/\ Round
        /\ message'.type = "PaymentServiceSelectionReq"
        /\ "PaymentServiceSelectionReq" \in Accepted(current_state, expecting))
       => LET failures == SelectionFailures(message', comm_session)
          IN  /\ next_msg'.type = "PaymentServiceSelectionRes"
              /\ failures = {}
                 <=> /\ next_msg'.response_code = "OK"
                     /\ next_state' = None
                     /\ current_state' = "PaymentServiceSelection"
                     /\ comm_session'.selected_auth_option =
                            message'.selected_auth_option
              /\ failures # {}
                 => /\ next_msg'.response_code \in failures
                    /\ stopped_with' = <<next_msg'.response_code>>
                    /\ next_state' = "Terminate"
                    /\ comm_session'.selected_auth_option =
                            comm_session.selected_auth_option]_vars

C24_Witness ==
    /\ Answered
    /\ entry.state = "PaymentServiceSelection"
    /\ message.type = "PaymentServiceSelectionReq"
    /\ message.selected_services = {CHARGING, CERTIFICATE}
    /\ CERTIFICATE \in comm_session.offered_services
    /\ message.selected_auth_option = PNC_V2
    /\ comm_session.selected_auth_option = PNC_V2
    /\ next_msg.response_code = "OK"
    /\ next_state = None

\* a round in which an AuthorizationReq is accepted where it arrives
AuthorizationRound ==
    /\ Round
    /\ message'.type = "AuthorizationReq"
    /\ "AuthorizationReq" \in Accepted(current_state, expecting)

\* C25: every AuthorizationReq that Authorization does not abort on is
\* answered OK; evse_processing is Finished and the next state is
\* ChargeParameterDiscovery exactly when is_authorised() is true in that
\* round, otherwise evse_processing is Ongoing and the next state is
\* Authorization again, in every repetition.
C25_Authorised ==
    [][(AuthorizationRound /\ stopped_with' = <<>>)
       => /\ next_msg'.type = "AuthorizationRes"
          /\ next_msg'.response_code = "OK"
          /\ current_state' = "Authorization"
          /\ IF env'.is_authorised
             THEN /\ next_msg'.evse_processing = "Finished"
                  /\ next_state' = "ChargeParameterDiscovery"
             ELSE /\ next_msg'.evse_processing = "Ongoing"
                  /\ next_state' = "Authorization"]_vars

\* (an AuthorizationReq that finds Authorization current has been answered
\* Ongoing at least once before in a session with external payment)
C25_Witness ==
    /\ Answered
    /\ entry.state = "Authorization"
    /\ comm_session.selected_auth_option = EIM_V2
    /\ message.type = "AuthorizationReq"
    /\ ~env.is_authorised
    /\ next_msg.response_code = "OK"
    /\ next_msg.evse_processing = "Ongoing"
    /\ next_state = "Authorization"

\* C26: in a session whose selected auth option is PnC an AuthorizationReq
\* is answered OK only if a contract certificate chain is stored, stored by
\* a PaymentDetails round that verified it, and the request's signature
\* verifies; with no chain or a failing signature the response is
\* FAILED_SIGNATURE_ERROR and the next state is Terminate; a PnC session is
\* never in ChargeParameterDiscovery without a chain stored that way.
C26_PnCAuthorization ==
    /\ comm_session.contract_cert_chain = None
    /\ [][/\ comm_session'.contract_cert_chain # comm_session.contract_cert_chain
             => /\ Round
                /\ message'.type = "PaymentDetailsReq"
                /\ env'.verify_certs = "ok"
                /\ next_msg'.type = "PaymentDetailsRes"
                /\ next_msg'.response_code = "OK"
                /\ comm_session'.contract_cert_chain = message'.cert_chain
          /\ (AuthorizationRound /\ comm_session.selected_auth_option = PNC_V2)
             => IF /\ comm_session.contract_cert_chain # None
                   /\ env'.verify_signature
                THEN next_msg'.response_code = "OK"
                ELSE /\ next_msg'.type = "AuthorizationRes"
                     /\ next_msg'.response_code = "FAILED_SIGNATURE_ERROR"
                     /\ stopped_with' = <<"FAILED_SIGNATURE_ERROR">>
                     /\ next_state' = "Terminate"
          /\ (/\ current_state' = "ChargeParameterDiscovery"
              /\ comm_session'.selected_auth_option = PNC_V2)
             => comm_session'.contract_cert_chain # None]_vars

C26_Witness ==
    /\ Answered
    /\ entry.state = "PaymentServiceSelection"
    /\ comm_session.selected_auth_option = PNC_V2
    /\ comm_session.contract_cert_chain = None
    /\ message.type = "AuthorizationReq"
    /\ env.verify_signature
    /\ next_msg.response_code = "FAILED_SIGNATURE_ERROR"
    /\ next_state = "Terminate"

\* a round in which ChargeParameterDiscovery gets a
\* ChargeParameterDiscoveryReq for a mode the controller supports
SchedulesAskedFor ==
    /\ Round
    /\ message'.type = "ChargeParameterDiscoveryReq"
    /\ "ChargeParameterDiscoveryReq" \in Accepted(current_state, expecting)
    /\ message'.requested_energy_mode \in env'.supported_modes

\* C27: for a supported mode, a controller that returns no schedule gets
\* the answer OK with EVSEProcessing Ongoing, the session stays in
\* ChargeParameterDiscovery and offered_schedules is unchanged; a
\* controller that returns at least one schedule gets OK with Finished,
\* offered_schedules becomes the returned list and the next state is
\* PowerDelivery.
C27_Schedules ==
    [][SchedulesAskedFor
       => /\ next_msg'.type = "ChargeParameterDiscoveryRes"
          /\ next_msg'.response_code = "OK"
          /\ current_state' = "ChargeParameterDiscovery"
          /\ IF env'.sa_schedule_list = <<>>
             THEN /\ next_msg'.evse_processing = "Ongoing"
                  /\ next_state' = None
                  /\ comm_session'.offered_schedules =
                        comm_session.offered_schedules
             ELSE /\ next_msg'.evse_processing = "Finished"
                  /\ next_state' = "PowerDelivery"
                  /\ comm_session'.offered_schedules = env'.sa_schedule_list
                  /\ next_msg'.sa_schedule_list = env'.sa_schedule_list]_vars

\* (a renegotiation in which the controller has no schedule yet: the
\* schedules offered before stay offered)
C27_Witness ==
    /\ Answered
    /\ message.type = "ChargeParameterDiscoveryReq"
    /\ env.sa_schedule_list = <<>>
    /\ next_msg.response_code = "OK"
    /\ next_msg.evse_processing = "Ongoing"
    /\ next_state = None
    /\ comm_session.offered_schedules # <<>>

\* some tuple of the list has a sales tariff
HasSalesTariff(list) == \E i \in 1..Len(list) : list[i].sales_tariff

\* C28: when the returned list has a tuple with a sales tariff, at any
\* position, and the signing key can be read, the response carries a
\* signature; when no tuple has a sales tariff it carries none.
C28_TariffSigned ==
    [][(SchedulesAskedFor /\ env'.sa_schedule_list # <<>>)
       => /\ (HasSalesTariff(env'.sa_schedule_list) /\ env'.mo_key_readable)
             => next_msg'.signature
          /\ ~HasSalesTariff(env'.sa_schedule_list)
             => ~next_msg'.signature]_vars

\* C29: a signing key that cannot be read does not end the session: the
\* response is OK with Finished and the schedules, without a signature,
\* and the next state is PowerDelivery.
C29_UnsignedTariff ==
    [][(/\ SchedulesAskedFor
        /\ env'.sa_schedule_list # <<>>
        /\ ~env'.mo_key_readable)
       => /\ next_msg'.type = "ChargeParameterDiscoveryRes"
          /\ next_msg'.response_code = "OK"
          /\ next_msg'.evse_processing = "Finished"
          /\ next_msg'.sa_schedule_list = env'.sa_schedule_list
          /\ ~next_msg'.signature
          /\ stopped_with' = <<>>
          /\ next_state' = "PowerDelivery"]_vars

C29_Witness ==
    /\ Answered
    /\ message.type = "ChargeParameterDiscoveryReq"
    /\ env.sa_schedule_list # <<>>
    /\ env.sa_schedule_list[1].sales_tariff
    /\ ~env.mo_key_readable
    /\ next_msg.response_code = "OK"
    /\ ~next_msg.signature
    /\ next_state = "PowerDelivery"

\* the response code the claim gives for an outcome of verify_certs
CertErrorCode(outcome) ==
    CASE outcome \in {"CertSignatureError", "CertChainLengthError"} ->
            "FAILED_CERT_CHAIN_ERROR"
      [] outcome = "CertExpiredError" -> "FAILED_CERTIFICATE_EXPIRED"
      [] outcome = "CertRevokedError" -> "FAILED_CERTIFICATE_REVOKED"
      [] outcome \in {"CertNotYetValidError", "CertAttributeError"} ->
            "FAILED"

\* C30: PaymentDetails stores the request's chain as contract_cert_chain
\* and answers OK with next state Authorization only when the chain
\* verifies; a signature or chain-length error is answered
\* FAILED_CERT_CHAIN_ERROR, an expired certificate
\* FAILED_CERTIFICATE_EXPIRED, a revoked one FAILED_CERTIFICATE_REVOKED, a
\* not-yet-valid certificate or an attribute error FAILED, each with next
\* state Terminate and contract_cert_chain unchanged.
C30_PaymentDetails ==
    [][(/\ Round
        /\ message'.type = "PaymentDetailsReq"
        /\ "PaymentDetailsReq" \in Accepted(current_state, expecting))
       => /\ next_msg'.type = "PaymentDetailsRes"
          /\ IF env'.verify_certs = "ok"
             THEN /\ next_msg'.response_code = "OK"
                  /\ next_state' = "Authorization"
                  /\ comm_session'.contract_cert_chain = message'.cert_chain
             ELSE /\ next_msg'.response_code = CertErrorCode(env'.verify_certs)
                  /\ stopped_with' = <<CertErrorCode(env'.verify_certs)>>
                  /\ next_state' = "Terminate"
                  /\ comm_session'.contract_cert_chain =
                        comm_session.contract_cert_chain]_vars

C30_Witness ==
    /\ Answered
    /\ message.type = "PaymentDetailsReq"
    /\ env.verify_certs = "CertNotYetValidError"
    /\ next_msg.type = "PaymentDetailsRes"
    /\ next_msg.response_code = "FAILED"
    /\ next_state = "Terminate"
    /\ comm_session.contract_cert_chain = None

\* C31: SessionStop answers every SessionStopReq with OK and next state
\* Terminate and records a successful stop reason, 'terminated' when the
\* request's ChargingSession is Terminate and 'paused' otherwise; once the
\* response is sent the session is in Terminate, where no request is
\* processed any more.
C31_SessionStop ==
    [][/\ (/\ Round
           /\ message'.type = "SessionStopReq"
           /\ "SessionStopReq" \in Accepted(current_state, expecting))
          => /\ next_msg'.type = "SessionStopRes"
             /\ next_msg'.response_code = "OK"
             /\ next_state' = "Terminate"
             /\ stopped_with' = <<>>
             /\ comm_session'.stop_reason =
                    [successful |-> TRUE,
                     reason |-> IF message'.charging_session = "Terminate"
                                THEN "terminated" ELSE "paused"]
       /\ (Answered /\ next_msg.type = "SessionStopRes")
          => current_state' = "Terminate" /\ pc' = "read"
       /\ current_state = "Terminate" => ~Round]_vars

\* (the session has ended after a SessionStopReq that asked for a pause)
C31_Witness ==
    /\ pc = "read"
    /\ current_state = "Terminate"
    /\ comm_session.stop_reason = [successful |-> TRUE, reason |-> "paused"]

\* C32: every ServiceDiscoveryRes offers the charge service; the
\* certificate-installation service is offered, and stored in
\* offered_services, only if the session uses TLS, the configuration allows
\* it and the request's category filter is absent or CERTIFICATE; in a
\* session with no previously selected auth option PnC is offered only if
\* TLS is active and PnC is configured, and EIM only if EIM is configured.
C32_OfferedServices ==
    [][/\ next_msg'.type = "ServiceDiscoveryRes"
          => next_msg'.charge_service = CHARGING
       /\ (/\ Round
           /\ current_state = "ServiceDiscovery"
           /\ message'.type = "ServiceDiscoveryReq"
           /\ ~raised')
          => /\ next_msg'.type = "ServiceDiscoveryRes"
             /\ next_msg'.response_code = "OK"
             /\ comm_session'.offered_services = next_msg'.service_list
             /\ CERTIFICATE \in next_msg'.service_list
                => /\ comm_session.is_tls
                   /\ comm_session.config.allow_cert_install_service
                   /\ message'.service_category \in
                        {None, "ContractCertificate"}
             /\ comm_session.selected_auth_option = None
                => /\ PNC_V2 \in Range(next_msg'.auth_options)
                      => /\ comm_session.is_tls
                         /\ "PNC" \in
                              comm_session.config.supported_auth_options
                   /\ EIM_V2 \in Range(next_msg'.auth_options)
                      => "EIM" \in
                              comm_session.config.supported_auth_options]_vars

\* (a TLS session configured for both options, asked with the CERTIFICATE
\* filter, is offered the installation service and both options)
C32_Witness ==
    /\ Answered
    /\ entry.state = "ServiceDiscovery"
    /\ message.type = "ServiceDiscoveryReq"
    /\ message.service_category = "ContractCertificate"
    /\ comm_session.is_tls
    /\ next_msg.charge_service = CHARGING
    /\ next_msg.service_list = {CERTIFICATE}
    /\ comm_session.offered_services = {CERTIFICATE}
    /\ next_msg.auth_options = <<EIM_V2, PNC_V2>>

\* C33: ChargingStatus answers every ChargingStatusReq with OK,
\* receipt_required false and the session's selected_schedule as tuple id,
\* and stays the current state, however often the request is repeated; it
\* names MeteringReceipt as next state only with a response that sets
\* receipt_required; after its first ChargingStatusReq a PowerDeliveryReq
\* is handed to PowerDelivery and a MeteringReceiptReq to MeteringReceipt.
C33_ChargingLoop ==
    [][/\ (/\ Round
           /\ message'.type = "ChargingStatusReq"
           /\ "ChargingStatusReq" \in Accepted(current_state, expecting))
          => /\ next_msg'.type = "ChargingStatusRes"
             /\ next_msg'.response_code = "OK"
             /\ ~next_msg'.receipt_required
             /\ next_msg'.sa_schedule_tuple_id =
                    comm_session.selected_schedule
             /\ next_state' = None
             /\ current_state' = "ChargingStatus"
             /\ ~expecting'
       /\ (/\ Round
           /\ current_state' = "ChargingStatus"
           /\ next_state' = "MeteringReceipt")
          => next_msg'.receipt_required
       /\ (/\ Round
           /\ current_state = "ChargingStatus"
           /\ ~expecting
           /\ message'.type \in {"PowerDeliveryReq", "MeteringReceiptReq"})
          => /\ current_state' = get_state_by_msg_type(message'.type)
             /\ next_msg'.type = ResponseTypeOf(message'.type)
             /\ "FAILED_SEQUENCE_ERROR" \notin Range(stopped_with')]_vars

\* (a repeated ChargingStatusReq in a session that selected the second
\* schedule)
C33_Witness ==
    /\ Answered
    /\ entry.state = "ChargingStatus"
    /\ ~entry.expecting
    /\ message.type = "ChargingStatusReq"
    /\ comm_session.selected_schedule = 2
    /\ next_msg.response_code = "OK"
    /\ next_msg.sa_schedule_tuple_id = 2
    /\ next_state = None

\* the states a session is in after Authorization has named
\* ChargeParameterDiscovery as its next state
AfterAuthorization ==
    {"ChargeParameterDiscovery", "PowerDelivery", "ChargingStatus",
     "MeteringReceipt", "CableCheck", "PreCharge", "CurrentDemand",
     "WeldingDetection", "SessionStop"}

\* C34: charging cannot start before authorization.  A session starts
\* outside the states of AfterAuthorization and enters them only with the
\* step that follows the sending of an AuthorizationRes with OK and
\* EVSEProcessing Finished; a ChargeParameterDiscoveryReq or
\* PowerDeliveryReq is processed without a sequence error, and
\* charge_progress_started becomes true, only in those states.
C34_AuthorizedFirst ==
    /\ current_state \notin AfterAuthorization
    /\ ~comm_session.charge_progress_started
    /\ [][/\ (/\ current_state \notin AfterAuthorization
              /\ current_state' \in AfterAuthorization)
             => /\ Answered
                /\ current_state = "Authorization"
                /\ next_msg.type = "AuthorizationRes"
                /\ next_msg.response_code = "OK"
                /\ next_msg.evse_processing = "Finished"
          /\ (/\ Round
              /\ message'.type \in
                    {"ChargeParameterDiscoveryReq", "PowerDeliveryReq"}
              /\ "FAILED_SEQUENCE_ERROR" \notin Range(stopped_with'))
             => current_state \in AfterAuthorization
          /\ (/\ ~comm_session.charge_progress_started
              /\ comm_session'.charge_progress_started)
             => current_state \in AfterAuthorization]_vars

\* (charging has started)
C34_Witness ==
    /\ Answered
    /\ entry.state = "PowerDelivery"
    /\ message.type = "PowerDeliveryReq"
    /\ message.charge_progress = "Start"
    /\ next_msg.response_code = "OK"
    /\ comm_session.charge_progress_started
    /\ "FAILED_SEQUENCE_ERROR" \notin Range(stopped_with)

\* the fields of the session context that record what has been negotiated
Negotiated(cs) ==
    <<cs.selected_auth_option, cs.selected_energy_mode, cs.offered_schedules,
      cs.selected_schedule, cs.charge_progress_started,
      cs.contract_cert_chain>>

\* C35: a process_message call that aborts with a FAILED code leaves
\* selected_auth_option, selected_energy_mode, offered_schedules,
\* selected_schedule, charge_progress_started and contract_cert_chain as
\* they were before the call.
C35_AbortWritesNothing ==
    [][(Round /\ stopped_with' # <<>>)
       => Negotiated(comm_session') = Negotiated(comm_session)]_vars

\* (an abort in a session that has negotiated everything: a PowerDeliveryReq
\* that names a tuple that was not offered, after charging has started)
C35_Witness ==
    /\ Answered
    /\ message.type = "PowerDeliveryReq"
    /\ stopped_with = <<"FAILED_TARIFF_SELECTION_INVALID">>
    /\ comm_session.charge_progress_started
    /\ comm_session.selected_schedule = 1
    /\ Len(comm_session.offered_schedules) = 1
    /\ comm_session.selected_energy_mode # None
    /\ comm_session.selected_auth_option # None

\* C36 as stated: whenever selected_schedule is set, it is the tuple id of
\* one of the session's current offered_schedules.
C36_SelectedOffered ==
    comm_session.selected_schedule # NoInt
    => comm_session.selected_schedule \in
            ScheduleIds(comm_session.offered_schedules)

\* C36 amended: selected_schedule is written only by a PowerDeliveryReq
\* with Start, with the id of a tuple offered at that moment, and it is the
\* id of a currently offered tuple whenever ChargingStatus or
\* MeteringReceipt is the current state.
C36_SelectedOfferedWhileCharging ==
    /\ [](/\ current_state \in {"ChargingStatus", "MeteringReceipt"}
          /\ comm_session.selected_schedule # NoInt
          => comm_session.selected_schedule \in
                ScheduleIds(comm_session.offered_schedules))
    /\ [][comm_session'.selected_schedule # comm_session.selected_schedule
          => /\ Round
             /\ message'.type = "PowerDeliveryReq"
             /\ message'.charge_progress = "Start"
             /\ comm_session'.selected_schedule =
                    message'.sa_schedule_tuple_id
             /\ comm_session'.selected_schedule \in
                    ScheduleIds(comm_session'.offered_schedules)
             /\ comm_session'.offered_schedules =
                    comm_session.offered_schedules]_vars

\* (charging starts on the second of the offered tuples)
C36_Witness ==
    /\ Answered
    /\ entry.state = "PowerDelivery"
    /\ message.type = "PowerDeliveryReq"
    /\ message.charge_progress = "Start"
    /\ message.sa_schedule_tuple_id = 2
    /\ comm_session.selected_schedule = 2
    /\ next_state = "ChargingStatus"

\* C37: every ServiceDiscoveryReq that ServiceDiscovery processes is
\* answered with a ServiceDiscoveryRes that offers at least one auth
\* option, and leaves a non-empty offered_auth_options in the session,
\* whatever the configured auth options, the TLS status and the previously
\* selected auth option are.
C37_SomeAuthOption ==
    [][(/\ Round
        /\ current_state = "ServiceDiscovery"
        /\ message'.type = "ServiceDiscoveryReq")
       => /\ next_msg'.type = "ServiceDiscoveryRes"
          /\ Len(next_msg'.auth_options) >= 1
          /\ Len(comm_session'.offered_auth_options) >= 1]_vars

\* C38: while ChargeParameterDiscovery has answered with Ongoing only, it
\* accepts nothing but a further ChargeParameterDiscoveryReq: a
\* PowerDeliveryReq that finds it current is a sequence error; and
\* offered_schedules, against which PowerDelivery validates the tuple id,
\* is written only with the list of a ChargeParameterDiscoveryRes that
\* carries Finished.
C38_OngoingKeepsOut ==
    /\ comm_session.offered_schedules = <<>>
    /\ [][/\ (/\ Round
              /\ current_state = "ChargeParameterDiscovery"
              /\ message'.type # "ChargeParameterDiscoveryReq")
             => /\ stopped_with' = <<"FAILED_SEQUENCE_ERROR">>
                /\ next_msg'.response_code = "FAILED_SEQUENCE_ERROR"
                /\ next_state' = "Terminate"
          /\ (/\ Answered
              /\ current_state = "ChargeParameterDiscovery"
              /\ next_msg.type = "ChargeParameterDiscoveryRes"
              /\ next_msg.evse_processing = "Ongoing"
              /\ next_msg.response_code = "OK")
             => /\ current_state' = "ChargeParameterDiscovery"
                /\ expecting'
          /\ comm_session'.offered_schedules # comm_session.offered_schedules
             => /\ Round
                /\ next_msg'.type = "ChargeParameterDiscoveryRes"
                /\ next_msg'.response_code = "OK"
                /\ next_msg'.evse_processing = "Finished"
                /\ comm_session'.offered_schedules =
                        next_msg'.sa_schedule_list]_vars

\* (a PowerDeliveryReq turned down in a first negotiation that has had a
\* ChargeParameterDiscoveryReq accepted, but no schedules yet)
C38_Witness ==
    /\ Answered
    /\ entry.state = "ChargeParameterDiscovery"
    /\ message.type = "PowerDeliveryReq"
    /\ comm_session.selected_energy_mode # None
    /\ comm_session.offered_schedules = <<>>
    /\ stopped_with = <<"FAILED_SEQUENCE_ERROR">>
    /\ next_state = "Terminate"

\* C39: in a session that holds no contract certificate chain every
\* MeteringReceiptReq is answered FAILED_METERING_SIGNATURE_NOT_VALID and
\* the session terminates, whatever the request's meter info and signature
\* are.
C39_NoChainNoReceipt ==
    [][(/\ Round
        /\ message'.type = "MeteringReceiptReq"
        /\ "MeteringReceiptReq" \in Accepted(current_state, expecting)
        /\ comm_session.contract_cert_chain = None)
       => /\ next_msg'.type = "MeteringReceiptRes"
          /\ next_msg'.response_code = "FAILED_METERING_SIGNATURE_NOT_VALID"
          /\ stopped_with' = <<"FAILED_METERING_SIGNATURE_NOT_VALID">>
          /\ next_state' = "Terminate"]_vars

\* (an external-payment session sends, while charging, a receipt whose
\* signature would verify and whose reading is set)
C39_Witness ==
    /\ Answered
    /\ entry.state = "ChargingStatus"
    /\ message.type = "MeteringReceiptReq"
    /\ comm_session.selected_auth_option = EIM_V2
    /\ comm_session.contract_cert_chain = None
    /\ env.verify_signature
    /\ message.meter_reading \notin {NoInt, 0}
    /\ next_msg.response_code = "FAILED_METERING_SIGNATURE_NOT_VALID"
    /\ next_state = "Terminate"

\* the state classes that pass a list of request types to check_msg_v2
CheckingStates ==
    {"SessionSetup", "ServiceDiscovery", "ServiceDetail",
     "PaymentServiceSelection", "CertificateInstallation", "PaymentDetails",
     "Authorization", "ChargeParameterDiscovery", "PowerDelivery",
     "ChargingStatus", "MeteringReceipt", "SessionStop"}

\* the request types get_state_by_msg_type has a state for
StateRequestTypes ==
    {"SessionSetupReq", "ServiceDiscoveryReq", "ServiceDetailReq",
     "PaymentServiceSelectionReq", "CertificateInstallationReq",
     "PaymentDetailsReq", "AuthorizationReq", "CableCheckReq", "PreChargeReq",
     "ChargeParameterDiscoveryReq", "PowerDeliveryReq", "ChargingStatusReq",
     "CurrentDemandReq", "MeteringReceiptReq", "WeldingDetectionReq",
     "SessionStopReq"}

\* T is the primary type of the state get_state_by_msg_type gives for it
PrimaryOfItsState(T) ==
    LET receiver == get_state_by_msg_type(T)
    IN  /\ receiver # None
        /\ expected_msg_types(receiver) # <<>>
        /\ Primary(receiver) = T

\* a round in which the current state, its primary request seen, gets a
\* request of another type of its accepted set
HandOver ==
    /\ Round
    /\ current_state \in CheckingStates
    /\ ~expecting
    /\ message'.type \in Range(expected_msg_types(current_state))
    /\ message'.type # Primary(current_state)

\* C40: hand-over is consistent with get_state_by_msg_type.  Every
\* non-primary type T of a state's accepted set is the primary type of the
\* state get_state_by_msg_type(T); a request of type T accepted by the
\* current state is processed by a fresh instance of that state, not as
\* the current state's primary request and without a sequence error; and
\* get_state_by_msg_type gives None for every type outside its 16.
C40_HandOver ==
    /\ \A t \in (ReqTypes \cup DinSpecReqTypes \cup IsoV20ReqTypes)
                    \ StateRequestTypes :
            get_state_by_msg_type(t) = None
    /\ \A t \in StateRequestTypes : get_state_by_msg_type(t) # None
    /\ [][HandOver
          => /\ PrimaryOfItsState(message'.type)
             /\ current_state' = get_state_by_msg_type(message'.type)
             /\ next_msg'.type = ResponseTypeOf(message'.type)
             /\ "FAILED_SEQUENCE_ERROR" \notin Range(stopped_with')]_vars

====
